---- MODULE Spec2Model ----
(***************************************************************************)
(* Signal: the bit-level protocol codec (Protocol.encode / Protocol.decode)*)
(* and the bit receiver state machines (BitReceiver, ManualBitReceiver).   *)
(*                                                                         *)
(* A JavaScript string is modelled as its sequence of UTF-16 code units,   *)
(* a bit array as a sequence over {0, 1}, a byte array as a sequence over  *)
(* 0..255.  Indices into bit arrays are kept 0-based as in the source and  *)
(* shifted by one where a TLA+ sequence is read.                           *)
(***************************************************************************)
EXTENDS Integers, Sequences, FiniteSets, TLC

(***************************************************************************)
(* State of a codec run: one call of Protocol.encode on a message and one  *)
(* call of Protocol.decode on bits derived from its result; or the same    *)
(* with GridProtocol and its frames; or one conversion of a grid frame to  *)
(* cells, or of cells to a grid frame, and one conversion back.            *)
(***************************************************************************)
VARIABLES
  cStep,      \* "new", "encoded", "thrown", "decoded", "converted" or "restored"
  cMessage,   \* the text given to encode
  cFrame,     \* what encode returned (<<>> before the call and when it threw)
  cKind,      \* how decode's input was derived from cFrame
  cGarbage,   \* the bits put in front of the frame
  cFlip,      \* 0-based index of the inverted bit, -1 for none
  cInput,     \* the bits given to decode
  cResult,    \* what decode returned
  cMid        \* what the first of two conversions returned

codecVars ==
  <<cStep, cMessage, cFrame, cKind, cGarbage, cFlip, cInput, cResult, cMid>>

(***************************************************************************)
(* State of a receiver run: one receiver object, the browser's animation   *)
(* frame queue and clock, and the physical channel its detectors read.     *)
(***************************************************************************)
VARIABLES
  driven,            \* the class under execution in this run
  state,             \* BitReceiver.state
  bits,              \* BitReceiver.bits
  gapStartTime,      \* BitReceiver.gapStartTime
  lastBitTime,       \* BitReceiver.lastBitTime
  animationFrameId,  \* BitReceiver.animationFrameId: Id(n) or null
  running,           \* BitReceiver.running
  mState,            \* ManualBitReceiver.state
  mBits,             \* ManualBitReceiver.bits
  now,               \* performance.now(), in ms
  pending,           \* ids of the animation frame callbacks not yet run
  requested,         \* number of requestAnimationFrame calls so far
  stream,            \* name of the bit stream the channel carries
  frameMs,           \* time between two animation frames
  fed,               \* number of bits of the stream sampled so far
  transmissions,     \* pilots the channel will still raise
  slack,             \* polls the channel may still leave without progress
  starts,            \* number of start() calls that started the receiver
  op,                \* the method that ran last
  calls,             \* the callbacks it made, in order
  pre,               \* state and number of bits before it ran
  sampled            \* Bit(b) if it pushed the bit b, else null

(***************************************************************************)
(* State of a MessageService run: the store's transceiver state and        *)
(* channel, the service's channel, the channels' flags and the promises    *)
(* the service awaits.                                                     *)
(***************************************************************************)
VARIABLES
  transceiverState,  \* Store state.transceiverState
  currentChannel,    \* Store state.currentChannel
  serviceChannel,    \* MessageService.currentChannel: a channel id or noChannel
  isSending,         \* BaseChannel._isSending of every channel
  isReceiving,       \* BaseChannel._isReceiving of every channel
  tasks,             \* the pending promises of channel.send / channel.startReceive
  issued,            \* number of promises created so far
  events,            \* number of user events handled so far
  inputText,         \* Store state.inputText
  currentValue,      \* createSelector: let currentValue
  listeners          \* Store.listeners: the subscriptions, in insertion order

selectorVars == <<inputText, currentValue, listeners>>

(***************************************************************************)
(* State of a channel run: the receive session of an UltrasonicChannel or  *)
(* AudibleChannel, and the receive loop of a GridChannel with the patterns *)
(* its camera is shown.                                                    *)
(***************************************************************************)
VARIABLES
  receiver,          \* UltrasonicChannel.receiver: Id(n) of an AudioReceiver or null
  bitReceiver,       \* UltrasonicChannel.bitReceiver: Id(n) of a BitReceiver or null
  polling,           \* ids of the BitReceivers started and not stopped
  gState,            \* GridChannel.state
  gFrames,           \* GridChannel.frames
  gGapStartTime,     \* GridChannel.gapStartTime
  lastFrameTime,     \* GridChannel.lastFrameTime
  shown              \* what the sender's overlay draws after the gap

channelVars ==
  <<receiver, bitReceiver, polling, gState, gFrames, gGapStartTime,
    lastFrameTime, shown>>

serviceVars ==
  <<transceiverState, currentChannel, serviceChannel, isSending, isReceiving,
    tasks, issued, events, selectorVars, channelVars>>

objectVars ==
  <<state, bits, gapStartTime, lastBitTime, animationFrameId, running,
    mState, mBits>>
hostVars ==
  <<now, pending, requested, stream, frameMs, fed, transmissions, slack,
    starts>>
historyVars == <<op, calls, pre, sampled>>
receiverVars == <<driven, objectVars, hostVars, historyVars>>
vars == <<codecVars, receiverVars, serviceVars>>

(***************************************************************************)
(* Program constants (src/src/constants/index.ts).                         *)
(***************************************************************************)
PREAMBLE == <<1, 0, 1, 0, 1, 0, 1, 0>>
START_MARKER == <<1, 1, 1, 1, 1, 1, 1, 1>>
MAX_MESSAGE_BYTES == 200
MAX_BITS_TIMEOUT == 2000

(***************************************************************************)
(* Bounds of the model.                                                    *)
(***************************************************************************)
\* Longest message, in UTF-16 code units, drawn over the whole Alphabet.
MaxChars == 2
\* Longest sequence of arbitrary bits put in front of an encoded frame.
MaxGarbageLen == 8
\* Longest message, in code units, whose frame gets arbitrary bits put in
\* front of it.
MaxPrefixedChars == 1
\* Longest arbitrary bit array given to decode on its own.
MaxRawLen == 8

\* The absent value (null in the source) and a present value.
null == [null |-> TRUE]
Some(t) == [text |-> t]

\* The error Protocol.encode throws.
MessageTooLongError == [error |-> "MessageTooLongError"]

\* An animation frame id, and a sampled bit (detectBit's non-null results).
Id(n) == [id |-> n]
Bit(b) == [bit |-> b]

\* The channels of a MessageService run (two of the six ChannelIds, one
\* audio and one visual), and the value of MessageService.currentChannel
\* before a channel is set.
ChannelIds == {"ultrasonic", "grid"}
noChannel == "null"

\* No sender has drawn anything yet.
nothingShown == [message |-> <<>>, kind |-> "none", patterns |-> <<>>]

\* The fields of both receiver classes, of the store, of the service and of
\* the channels after construction, with nothing requested from the browser
\* and no method run.
Constructed ==
  /\ state = "idle"
  /\ bits = <<>>
  /\ gapStartTime = 0
  /\ lastBitTime = 0
  /\ animationFrameId = null
  /\ running = FALSE
  /\ mState = "idle"
  /\ mBits = <<>>
  /\ now = 0
  /\ pending = {}
  /\ requested = 0
  /\ fed = 0
  /\ starts = 0
  /\ op = "constructor"
  /\ calls = <<>>
  /\ pre = [state |-> "idle", length |-> 0]
  /\ sampled = null
  /\ transceiverState = "idle"
  /\ currentChannel = "ultrasonic"
  /\ serviceChannel = noChannel
  /\ isSending = [ch \in ChannelIds |-> FALSE]
  /\ isReceiving = [ch \in ChannelIds |-> FALSE]
  /\ tasks = {}
  /\ issued = 0
  /\ events = 0
  /\ inputText = ""
  /\ currentValue = "ultrasonic"
  /\ listeners = <<>>
  /\ receiver = null
  /\ bitReceiver = null
  /\ polling = {}
  /\ gState = "idle"
  /\ gFrames = <<>>
  /\ gGapStartTime = 0
  /\ lastFrameTime = 0
  /\ shown = nothingShown

(***************************************************************************)
(* Sequence helpers.                                                       *)
(***************************************************************************)
\* Array.prototype.slice(from, to) with 0-based, end-exclusive bounds that
\* are clamped to the array, as decode uses it.
Slice(s, from, to) ==
  LET hi == IF to < Len(s) THEN to ELSE Len(s)
  IN  IF from >= hi THEN <<>> ELSE [i \in 1..(hi - from) |-> s[from + i]]

\* 'x'.repeat(n)
Repeat(x, n) == [i \in 1..n |-> x]

\* The concatenation of the sequences ss[lo..hi], by halves (the depth of the
\* recursion is logarithmic in the number of sequences).
RECURSIVE FlattenRange(_, _, _)
FlattenRange(ss, lo, hi) ==
  IF lo > hi THEN <<>>
  ELSE IF lo = hi THEN ss[lo]
  ELSE LET mid == (lo + hi) \div 2
       IN  FlattenRange(ss, lo, mid) \o FlattenRange(ss, mid + 1, hi)

Flatten(ss) == FlattenRange(ss, 1, Len(ss))

\* All sequences over S of length at most n.
SeqsUpTo(S, n) == UNION {[1..k -> S] : k \in 0..n}

(***************************************************************************)
(* TextEncoder / TextDecoder('utf-8', {fatal: true}) as the platform       *)
(* defines them (WHATWG Encoding), on which encode and decode rest.        *)
(***************************************************************************)
IsHighSurrogate(u) == u >= 55296 /\ u <= 56319
IsLowSurrogate(u) == u >= 56320 /\ u <= 57343

\* A string's code units to Unicode scalar values: a high surrogate followed
\* by a low one is one scalar value, an unpaired surrogate becomes U+FFFD.
\* (A high surrogate can only open a pair and a low one only close it, so
\* whether a unit is paired is decided by its neighbour alone.)
ToScalars(units) ==
  LET OpensPair(i) ==
        IsHighSurrogate(units[i]) /\ i < Len(units) /\ IsLowSurrogate(units[i + 1])
      ClosesPair(i) ==
        IsLowSurrogate(units[i]) /\ i > 1 /\ IsHighSurrogate(units[i - 1])
      At(i) ==
        IF OpensPair(i)
          THEN <<65536 + (units[i] - 55296) * 1024 + (units[i + 1] - 56320)>>
        ELSE IF ClosesPair(i) THEN <<>>
        ELSE IF IsHighSurrogate(units[i]) \/ IsLowSurrogate(units[i]) THEN <<65533>>
        ELSE <<units[i]>>
  IN  Flatten([i \in 1..Len(units) |-> At(i)])

\* Scalar values back to code units.
FromScalars(cps) ==
  Flatten([i \in 1..Len(cps) |->
             IF cps[i] >= 65536
               THEN <<55296 + ((cps[i] - 65536) \div 1024),
                      56320 + ((cps[i] - 65536) % 1024)>>
               ELSE <<cps[i]>>])

\* The UTF-8 bytes of one scalar value.
Utf8Bytes(c) ==
  IF c < 128 THEN <<c>>
  ELSE IF c < 2048 THEN <<192 + (c \div 64), 128 + (c % 64)>>
  ELSE IF c < 65536
    THEN <<224 + (c \div 4096), 128 + ((c \div 64) % 64), 128 + (c % 64)>>
  ELSE <<240 + (c \div 262144), 128 + ((c \div 4096) % 64),
         128 + ((c \div 64) % 64), 128 + (c % 64)>>

\* The UTF-8 bytes of a sequence of scalar values.
Utf8Encode(cps) == Flatten([i \in 1..Len(cps) |-> Utf8Bytes(cps[i])])

\* new TextEncoder().encode(message)
TextEncode(message) == Utf8Encode(ToScalars(message))

\* Continuation bytes a lead byte asks for; -1 for a byte that cannot lead.
Utf8Needed(b) ==
  IF b <= 127 THEN 0
  ELSE IF b >= 194 /\ b <= 223 THEN 1
  ELSE IF b >= 224 /\ b <= 239 THEN 2
  ELSE IF b >= 240 /\ b <= 244 THEN 3
  ELSE -1

\* The range allowed for the byte after lead byte b (no overlong forms, no
\* surrogates, nothing above U+10FFFF).
Utf8Lower(b) == IF b = 224 THEN 160 ELSE IF b = 240 THEN 144 ELSE 128
Utf8Upper(b) == IF b = 237 THEN 159 ELSE IF b = 244 THEN 143 ELSE 191

IsContinuation(b) == b >= 128 /\ b <= 191

\* The fatal UTF-8 decoder: the scalar values, or null for a malformed or
\* truncated sequence.  A sequence starts at every byte that is not a
\* continuation byte; the input is well formed exactly when it does not start
\* with a continuation byte and every start is a lead byte followed by just
\* the continuation bytes it asks for, the first of them in the lead's range.
Utf8Decode(bytes) ==
  LET WellFormedAt(i) ==
        LET n == Utf8Needed(bytes[i])
        IN  /\ n # -1
            /\ i + n <= Len(bytes)
            /\ \A k \in 1..n : IsContinuation(bytes[i + k])
            /\ n >= 1 => /\ bytes[i + 1] >= Utf8Lower(bytes[i])
                         /\ bytes[i + 1] <= Utf8Upper(bytes[i])
            /\ i + n + 1 <= Len(bytes) => ~IsContinuation(bytes[i + n + 1])
      ScalarAt(i) ==
        LET b == bytes[i]
            n == Utf8Needed(b)
            c0 == IF n = 0 THEN b
                  ELSE IF n = 1 THEN b - 192 ELSE IF n = 2 THEN b - 224 ELSE b - 240
            c1 == IF n >= 1 THEN c0 * 64 + (bytes[i + 1] - 128) ELSE c0
            c2 == IF n >= 2 THEN c1 * 64 + (bytes[i + 2] - 128) ELSE c1
        IN  IF n >= 3 THEN c2 * 64 + (bytes[i + 3] - 128) ELSE c2
  IN  IF Len(bytes) > 0 /\ IsContinuation(bytes[1]) THEN null
      ELSE IF \E i \in 1..Len(bytes) :
                ~IsContinuation(bytes[i]) /\ ~WellFormedAt(i) THEN null
      ELSE Some(Flatten([i \in 1..Len(bytes) |->
                           IF IsContinuation(bytes[i]) THEN <<>> ELSE <<ScalarAt(i)>>]))

\* The scalar values of a decoder result as a string, null kept.
ScalarsToString(r) == IF r = null THEN null ELSE Some(FromScalars(r.text))

\* new TextDecoder('utf-8', {fatal: true}).decode(bytes): ignoreBOM is left
\* at its default false, so a leading EF BB BF is consumed and not output.
\* null stands for the TypeError a malformed input raises.
TextDecodeFatal(bytes) ==
  IF Len(bytes) >= 3 /\ bytes[1] = 239 /\ bytes[2] = 187 /\ bytes[3] = 191
    THEN ScalarsToString(Utf8Decode(SubSeq(bytes, 4, Len(bytes))))
    ELSE ScalarsToString(Utf8Decode(bytes))

(***************************************************************************)
(* Protocol (protocol.ts).                                                 *)
(***************************************************************************)
\* A byteToBits that pushes the least significant bit first.
byteToBitsLsbFirst(byte) == [i \in 1..8 |-> (byte \div (2 ^ (i - 1))) % 2]

\* Protocol.byteToBits: 8 bits, MSB first.
byteToBits(byte) == [i \in 1..8 |-> (byte \div (2 ^ (8 - i))) % 2]

\* Protocol.bitsToNumber: reduce((acc << 1) | bit, 0).
RECURSIVE bitsToNumber(_)
bitsToNumber(bitArray) ==
  IF bitArray = <<>> THEN 0
  ELSE bitsToNumber(SubSeq(bitArray, 1, Len(bitArray) - 1)) * 2 + bitArray[Len(bitArray)]

\* a ^ b on bytes.
Xor8(a, b) == bitsToNumber([i \in 1..8 |-> (byteToBits(a)[i] + byteToBits(b)[i]) % 2])

\* The XOR of bytes[lo..hi], 0 for none: the fold of calculateChecksum, taken
\* by halves (XOR is associative).
RECURSIVE XorRange(_, _, _)
XorRange(bytes, lo, hi) ==
  IF lo > hi THEN 0
  ELSE IF lo = hi THEN bytes[lo]
  ELSE LET mid == (lo + hi) \div 2
       IN  Xor8(XorRange(bytes, lo, mid), XorRange(bytes, mid + 1, hi))

\* Protocol.calculateChecksum: XOR of all bytes.
calculateChecksum(bytes) == XorRange(bytes, 1, Len(bytes))

\* Whether 8 ones start at 0-based index i of bits (the inner loop of
\* findStartMarker, which leaves `found` true).
allOnes(bitArray, i) == \A j \in 0..7 : bitArray[i + j + 1] = 1

\* A marker test that accepts the marker only right after an 8-bit preamble
\* at the head of the array instead of at every index.
foundAtPreambleOnly(bitArray, i) == i = 8 /\ allOnes(bitArray, i)

\* The value of `found` after the inner loop for index i.
found(bitArray, i) == allOnes(bitArray, i)

\* Protocol.findStartMarker: 0-based index of the first run of 8 ones, or -1.
findStartMarker(bitArray) ==
  IF \E i \in 0..(Len(bitArray) - 8) : found(bitArray, i)
    THEN CHOOSE i \in 0..(Len(bitArray) - 8) :
           found(bitArray, i) /\ \A k \in 0..(i - 1) : ~found(bitArray, k)
    ELSE -1

\* The frame Protocol.encode builds from the message's bytes.
encodeBytes(bytes) ==
  IF Len(bytes) > MAX_MESSAGE_BYTES THEN MessageTooLongError
  ELSE PREAMBLE \o START_MARKER \o byteToBits(Len(bytes))
         \o Flatten([i \in 1..Len(bytes) |-> byteToBits(bytes[i])])
         \o byteToBits(calculateChecksum(bytes))

\* Protocol.encode: the frame's bits, or the error thrown.
encode(message) == encodeBytes(TextEncode(message))

\* A decode that does not compare the checksums.
decodeVerifyUnchecked(dataBytes, receivedChecksum) == TextDecodeFatal(dataBytes)

\* Protocol.decode from "Verify checksum" on.
decodeVerify(dataBytes, receivedChecksum) ==
  IF receivedChecksum # calculateChecksum(dataBytes) THEN null
  ELSE TextDecodeFatal(dataBytes)

\* A decode that reads the checksum without the test of checksumBits.length.
decodeDataShortChecksum(bitArray, bitIndex, dataLength) ==
  IF \E i \in 1..dataLength : bitIndex + 8 * i > Len(bitArray) THEN null
  ELSE decodeVerify(
         [i \in 1..dataLength |->
            bitsToNumber(Slice(bitArray, bitIndex + 8 * (i - 1), bitIndex + 8 * i))],
         bitsToNumber(Slice(bitArray, bitIndex + 8 * dataLength,
                            bitIndex + 8 * dataLength + 8)))

\* Protocol.decode from "Read data bytes" on; bitIndex is the 0-based index
\* of the first data bit.
decodeData(bitArray, bitIndex, dataLength) ==
  \* byteBits.length < 8 for some byte: its slice runs past the end
  IF \E i \in 1..dataLength : bitIndex + 8 * i > Len(bitArray) THEN null
  \* checksumBits.length < 8
  ELSE IF bitIndex + 8 * dataLength + 8 > Len(bitArray) THEN null
  ELSE decodeVerify(
         [i \in 1..dataLength |->
            bitsToNumber(Slice(bitArray, bitIndex + 8 * (i - 1), bitIndex + 8 * i))],
         bitsToNumber(Slice(bitArray, bitIndex + 8 * dataLength,
                            bitIndex + 8 * dataLength + 8)))

\* A decode that accepts every declared length.
decodeLengthUnchecked(bitArray, dataStart, dataLength) ==
  decodeData(bitArray, dataStart + 8, dataLength)

\* Protocol.decode from "Validate data length" on.
decodeLength(bitArray, dataStart, dataLength) ==
  IF dataLength > MAX_MESSAGE_BYTES \/ dataLength = 0 THEN null
  ELSE decodeData(bitArray, dataStart + 8, dataLength)

\* Protocol.decode once findStartMarker has returned markerIndex.
decodeAt(bitArray, markerIndex) ==
  IF markerIndex = -1 THEN null
  \* lengthBits.length < 8
  ELSE IF Len(Slice(bitArray, markerIndex + 8, markerIndex + 16)) < 8 THEN null
  ELSE decodeLength(bitArray, markerIndex + 8,
                    bitsToNumber(Slice(bitArray, markerIndex + 8, markerIndex + 16)))

\* A decode that goes on to later runs of 8 ones when the frame at the first
\* one is rejected.
decodeAtAnyMarker(bitArray) ==
  LET markers == {i \in 0..(Len(bitArray) - 8) :
                    found(bitArray, i) /\ decodeAt(bitArray, i) # null}
  IN  IF markers = {} THEN null
      ELSE decodeAt(bitArray, CHOOSE i \in markers : \A k \in markers : i <= k)

\* Protocol.decode: the message, or null.
decode(bitArray) == decodeAt(bitArray, findStartMarker(bitArray))

\* Protocol.getByteLength
getByteLength(message) == Len(TextEncode(message))

\* A canEncode that refuses a message of exactly MAX_MESSAGE_BYTES bytes.
canEncodeBelowLimit(message) == getByteLength(message) < MAX_MESSAGE_BYTES

\* Protocol.canEncode
canEncode(message) == getByteLength(message) <= MAX_MESSAGE_BYTES

\* Protocol.calculateBitCount
calculateBitCount(message) == 8 + 8 + 8 + getByteLength(message) * 8 + 8

(***************************************************************************)
(* Codec runs.                                                             *)
(***************************************************************************)
\* Code units the bounded messages are made of: 'j' (1 byte in UTF-8), U+00E9
\* (2 bytes), U+FEFF (3 bytes, the byte order mark) and the two halves of the
\* surrogate pair of U+1F600 (4 bytes as a pair, U+FFFD each when unpaired).
Alphabet == {106, 233, 55357, 56832, 65279}

\* Inputs of encode: every text of at most MaxChars code units over the
\* Alphabet, and the texts at the size limit and one byte beyond it.
ShortMessages == SeqsUpTo(Alphabet, MaxChars)

Messages ==
  ShortMessages
    \cup {Repeat(97, MAX_MESSAGE_BYTES), Repeat(97, MAX_MESSAGE_BYTES + 1),
          Repeat(233, MAX_MESSAGE_BYTES \div 2),
          Repeat(233, MAX_MESSAGE_BYTES \div 2 + 1)}

\* The bit sequences put in front of a frame.
Garbage == SeqsUpTo({0, 1}, MaxGarbageLen) \ {<<>>}

\* The bit arrays given to decode on their own: every array of at most
\* MaxRawLen bits, sixteen zeros, and a start marker followed by nothing, by
\* less than a length field, by one more 1, or by a length field n and a tail.
RawLengths == {0, 1, MAX_MESSAGE_BYTES, MAX_MESSAGE_BYTES + 1, 255}
RawTails == {<<>>, Repeat(0, 8), Repeat(0, 16), byteToBits(106) \o byteToBits(106)}
RawInputs ==
  SeqsUpTo({0, 1}, MaxRawLen)
    \cup {Repeat(0, 16), START_MARKER \o <<0, 0, 0>>, START_MARKER \o <<1>>,
          <<0>> \o START_MARKER \o <<0, 0, 0, 0, 0, 0, 1>>}
    \cup {START_MARKER \o byteToBits(n) \o tail : n \in RawLengths, tail \in RawTails}
    \cup {<<0, 1>> \o START_MARKER \o byteToBits(n) \o tail :
            n \in RawLengths, tail \in RawTails}

\* bits with the bit at 0-based index i inverted.
FlipBit(bitArray, i) == [bitArray EXCEPT ![i + 1] = 1 - bitArray[i + 1]]

CodecInit ==
  /\ cStep = "new"
  /\ cMessage \in Messages
  /\ cFrame = <<>>
  /\ cKind = "none"
  /\ cGarbage = <<>>
  /\ cFlip = -1
  /\ cInput = <<>>
  /\ cResult = null
  /\ cMid = <<>>
  /\ driven = "Protocol"
  /\ stream = "none"
  /\ frameMs = 0
  /\ transmissions = 0
  /\ slack = 0
  /\ Constructed

\* Protocol.encode(cMessage)
Encode ==
  /\ driven = "Protocol"
  /\ cStep = "new"
  /\ LET r == encode(cMessage)
     IN  IF r = MessageTooLongError
           THEN cStep' = "thrown" /\ cFrame' = <<>>
           ELSE cStep' = "encoded" /\ cFrame' = r
  /\ UNCHANGED <<cMessage, cKind, cGarbage, cFlip, cInput, cResult, cMid>>
  /\ UNCHANGED <<receiverVars, serviceVars>>

\* Protocol.decode on the bits `input`, derived from the frame as `kind` says.
DecodeCall(kind, garbage, flip, input) ==
  /\ driven = "Protocol"
  /\ cStep = "encoded"
  /\ cStep' = "decoded"
  /\ cKind' = kind
  /\ cGarbage' = garbage
  /\ cFlip' = flip
  /\ cInput' = input
  /\ cResult' = decode(input)
  /\ UNCHANGED <<cMessage, cFrame, cMid>>
  /\ UNCHANGED <<receiverVars, serviceVars>>

\* decode(encode(m))
DecodeFrame == DecodeCall("exact", <<>>, -1, cFrame)

\* decode(g ++ encode(m)) for arbitrary bits g
DecodePrepended ==
  /\ Len(cMessage) <= MaxPrefixedChars
  /\ \E g \in Garbage : DecodeCall("prepended", g, -1, g \o cFrame)

\* decode of encode(m) with one bit inverted
DecodeFlipped ==
  /\ cMessage \in ShortMessages
  /\ \E i \in 0..(Len(cFrame) - 1) :
       DecodeCall("flipped", <<>>, i, FlipBit(cFrame, i))

\* decode of the first n bits of encode(m), n less than the frame's length
DecodeTruncated ==
  \E n \in 0..(Len(cFrame) - 1) :
    DecodeCall("truncated", <<>>, -1, SubSeq(cFrame, 1, n))

\* decode of a bit array that no encode produced
DecodeRaw ==
  /\ cMessage = <<>>
  /\ \E input \in RawInputs : DecodeCall("raw", <<>>, -1, input)

CodecNext ==
  \/ Encode
  \/ DecodeFrame
  \/ DecodePrepended
  \/ DecodeFlipped
  \/ DecodeTruncated
  \/ DecodeRaw

SpecCodec == CodecInit /\ [][CodecNext]_vars

(***************************************************************************)
(* GridProtocol (protocol.ts): frames of two bytes for the 4x4 grid.       *)
(***************************************************************************)
Bytes == 0..255

\* GridProtocol.calculateChecksum: XOR of all bytes.
gridCalculateChecksum(bytes) == XorRange(bytes, 1, Len(bytes))

\* "Pad to even length"
padToEven(payload) ==
  IF Len(payload) % 2 # 0 THEN Append(payload, 0) ELSE payload

\* "Split into 2-byte frames"
splitFrames(payload) ==
  [i \in 1..(Len(payload) \div 2) |-> <<payload[2 * i - 1], payload[2 * i]>>]

\* The frames GridProtocol.encode returns, told apart from the error.
Returned(frames) == [frames |-> frames]

\* The frames GridProtocol.encode builds from the message's bytes.
gridEncodeBytes(data) ==
  IF Len(data) > MAX_MESSAGE_BYTES THEN MessageTooLongError
  ELSE Returned(splitFrames(padToEven(<<Len(data)>> \o data
                                        \o <<gridCalculateChecksum(data)>>)))

\* GridProtocol.encode: the frames, or the error thrown.
gridEncode(message) == gridEncodeBytes(TextEncode(message))

\* A grid decode that does not compare the checksums.
gridDecodeVerifyUnchecked(data, receivedChecksum) == TextDecodeFatal(data)

\* GridProtocol.decode from "Verify checksum" on.
gridDecodeVerify(data, receivedChecksum) ==
  IF receivedChecksum # gridCalculateChecksum(data) THEN null
  ELSE TextDecodeFatal(data)

\* minBytes rounded up to even.
expectedBytes(dataLength) ==
  IF (dataLength + 2) % 2 = 0 THEN dataLength + 2 ELSE dataLength + 2 + 1

\* GridProtocol.decode from "Read length" on, bytes being the flattened
\* frames.
gridDecodeBytes(bytes) ==
  IF bytes[1] = 0 \/ bytes[1] > MAX_MESSAGE_BYTES THEN null
  ELSE IF Len(bytes) < expectedBytes(bytes[1]) THEN null
  ELSE gridDecodeVerify(Slice(bytes, 1, 1 + bytes[1]), bytes[1 + bytes[1] + 1])

\* GridProtocol.decode: the message, or null.
gridDecode(frames) ==
  IF Len(frames) = 0 THEN null
  ELSE gridDecodeBytes(Flatten(frames))

\* A frameToCells that pushes the low byte's bits first.
frameToCellsLowFirst(frame) ==
  [i \in 1..16 |->
     IF i <= 8 THEN (frame[2] \div (2 ^ (8 - i))) % 2
     ELSE (frame[1] \div (2 ^ (16 - i))) % 2]

\* GridProtocol.frameToCells: [highByte, lowByte] to 16 cell values.
frameToCells(frame) ==
  [i \in 1..16 |->
     IF i <= 8 THEN (frame[1] \div (2 ^ (8 - i))) % 2
     ELSE (frame[2] \div (2 ^ (16 - i))) % 2]

\* GridProtocol.cellsToFrame: 16 cell values to [highByte, lowByte], each
\* byte by (byte << 1) | (cells[i] ? 1 : 0).
cellsToFrame(cells) ==
  <<bitsToNumber([i \in 1..8 |-> IF cells[i] # 0 THEN 1 ELSE 0]),
    bitsToNumber([i \in 1..8 |-> IF cells[i + 8] # 0 THEN 1 ELSE 0])>>

(***************************************************************************)
(* Grid codec runs.                                                        *)
(***************************************************************************)
\* Every frame of two bytes and every array of 16 cell values.
GridFrames == Bytes \X Bytes
GridCells == [1..16 -> {0, 1}]

\* payload with the byte at 0-based offset i replaced by v, as frames.
WithByte(frames, i, v) ==
  [frames EXCEPT ![(i \div 2) + 1] = [@ EXCEPT ![(i % 2) + 1] = v]]

GridInit ==
  /\ cStep = "new"
  /\ cMessage \in Messages
  /\ cFrame = <<>>
  /\ cKind = "none"
  /\ cGarbage = <<>>
  /\ cFlip = -1
  /\ cInput = <<>>
  /\ cResult = null
  /\ cMid = <<>>
  /\ driven = "GridProtocol"
  /\ stream = "none"
  /\ frameMs = 0
  /\ transmissions = 0
  /\ slack = 0
  /\ Constructed

\* GridProtocol.encode(cMessage)
GridEncode ==
  /\ driven = "GridProtocol"
  /\ cStep = "new"
  /\ LET r == gridEncode(cMessage)
     IN  IF r = MessageTooLongError
           THEN cStep' = "thrown" /\ cFrame' = <<>>
           ELSE cStep' = "encoded" /\ cFrame' = r.frames
  /\ UNCHANGED <<cMessage, cKind, cGarbage, cFlip, cInput, cResult, cMid>>
  /\ UNCHANGED <<receiverVars, serviceVars>>

\* GridProtocol.decode on the frames `input`.
GridDecodeCall(kind, flip, input) ==
  /\ driven = "GridProtocol"
  /\ cStep = "encoded"
  /\ cStep' = "decoded"
  /\ cKind' = kind
  /\ cFlip' = flip
  /\ cInput' = input
  /\ cResult' = gridDecode(input)
  /\ UNCHANGED <<cMessage, cFrame, cGarbage, cMid>>
  /\ UNCHANGED <<receiverVars, serviceVars>>

\* GridProtocol.decode(GridProtocol.encode(m))
GridDecodeFrames == GridDecodeCall("exact", -1, cFrame)

\* decode of encode(m) with the checksum byte, at offset 1 + N of the
\* payload, replaced by another value; cFlip is the offset.
GridDecodeCorrupted ==
  LET N == getByteLength(cMessage)
  IN  /\ cStep = "encoded"
      /\ \E v \in Bytes \ {cFrame[((1 + N) \div 2) + 1][((1 + N) % 2) + 1]} :
           GridDecodeCall("corrupted", 1 + N, WithByte(cFrame, 1 + N, v))

\* decode of no frames at all
GridDecodeNothing == GridDecodeCall("nothing", -1, <<>>)

\* The first of two conversions: frameToCells on a frame, cellsToFrame on
\* cells.
GridConvert ==
  /\ driven = "GridProtocol"
  /\ cStep = "new"
  /\ cMessage = <<>>
  /\ cStep' = "converted"
  /\ \/ \E frame \in GridFrames :
          /\ cKind' = "frame"
          /\ cInput' = frame
          /\ cMid' = frameToCells(frame)
     \/ \E cells \in GridCells :
          /\ cKind' = "cells"
          /\ cInput' = cells
          /\ cMid' = cellsToFrame(cells)
  /\ UNCHANGED <<cMessage, cFrame, cGarbage, cFlip, cResult>>
  /\ UNCHANGED <<receiverVars, serviceVars>>

\* The conversion back.
GridRestore ==
  /\ driven = "GridProtocol"
  /\ cStep = "converted"
  /\ cStep' = "restored"
  /\ cResult' = IF cKind = "frame" THEN cellsToFrame(cMid)
                ELSE frameToCells(cMid)
  /\ UNCHANGED <<cMessage, cFrame, cKind, cGarbage, cFlip, cInput, cMid>>
  /\ UNCHANGED <<receiverVars, serviceVars>>

GridNext ==
  \/ GridEncode
  \/ GridDecodeFrames
  \/ GridDecodeCorrupted
  \/ GridDecodeNothing
  \/ GridConvert
  \/ GridRestore

SpecGrid == GridInit /\ [][GridNext]_vars

(***************************************************************************)
(* Protocol.decodePartial, the preview decode.  Its code is not part of    *)
(* the sources at hand (BitReceiver calls it at bit-receiver.ts:198); it   *)
(* is written down here from its specification: none below 32 bits or      *)
(* without a marker and a length in 1..200, else the text of the longest   *)
(* prefix of the complete data bytes at hand that is well-formed UTF-8,    *)
(* the checksum being ignored.                                             *)
(***************************************************************************)
PARTIAL_DECODE_MIN_BITS == 32

\* The lesser of two numbers (Math.min).
Min2(a, b) == IF a < b THEN a ELSE b

\* The n bytes that start at 0-based bit index bitIndex.
bytesAt(bitArray, bitIndex, n) ==
  [i \in 1..n |->
    bitsToNumber(Slice(bitArray, bitIndex + 8 * (i - 1), bitIndex + 8 * i))]

\* Length of the longest prefix of bytes that is well-formed UTF-8.
wellFormedPrefix(bytes) ==
  CHOOSE k \in 0..Len(bytes) :
    /\ Utf8Decode(Slice(bytes, 0, k)) # null
    /\ \A j \in (k + 1)..Len(bytes) : Utf8Decode(Slice(bytes, 0, j)) = null

partialText(bytes) ==
  ScalarsToString(Utf8Decode(Slice(bytes, 0, wellFormedPrefix(bytes))))

decodePartialData(bitArray, bitIndex, dataLength) ==
  IF dataLength = 0 \/ dataLength > MAX_MESSAGE_BYTES THEN null
  ELSE partialText(bytesAt(bitArray, bitIndex,
                           Min2(dataLength, (Len(bitArray) - bitIndex) \div 8)))

decodePartialAt(bitArray, markerIndex) ==
  IF markerIndex = -1 THEN null
  ELSE IF Len(bitArray) < markerIndex + 16 THEN null
  ELSE decodePartialData(bitArray, markerIndex + 16,
         bitsToNumber(Slice(bitArray, markerIndex + 8, markerIndex + 16)))

decodePartial(bitArray) ==
  IF Len(bitArray) < PARTIAL_DECODE_MIN_BITS THEN null
  ELSE decodePartialAt(bitArray, findStartMarker(bitArray))

(***************************************************************************)
(* BitReceiver (src/src/domain/bit-receiver.ts).  A method is an operator  *)
(* from the object r it runs on to the object it leaves; r.calls collects  *)
(* the callbacks it makes, in order.  t is the value performance.now()     *)
(* returned, pilot and bit what detectPilot() and detectBit() return.      *)
(***************************************************************************)
\* The configuration the ultrasonic channel constructs its BitReceiver with.
config == [bitMs |-> 100, guardMs |-> 8, gapMs |-> 300]
GAP_MS == 300
\* this.gapMs = config.gapMs ?? GAP_MS
gapMs == IF "gapMs" \in DOMAIN config THEN config.gapMs ELSE GAP_MS
bitInterval == config.bitMs + config.guardMs

\* 0.6, as a fraction.
GAP_THRESHOLD_MULTIPLIER == [num |-> 6, den |-> 10]

ReceiverStates == {"idle", "pilot", "gap", "bits"}

\* A status without partialText carries undefined there.
undefined == [undefined |-> TRUE]

\* The status {state: 'receiving', progress, partialText}; progress is kept
\* as the number of 32nds.
receiving(progress32, text) ==
  [state |-> "receiving", progress32 |-> progress32, partialText |-> text]

\* A reset that forgets to empty the buffer.
resetKeepsBits(r) ==
  [r EXCEPT !.state = "idle", !.gapStartTime = 0, !.lastBitTime = 0]

reset(r) ==
  [r EXCEPT !.state = "idle", !.bits = <<>>, !.gapStartTime = 0,
            !.lastBitTime = 0]

\* stop() called by the owner from inside a callback of the receiver.
stopWithin(r) ==
  [reset(r) EXCEPT !.running = FALSE,
                   !.pending = IF r.animationFrameId # null
                                 THEN @ \ {r.animationFrameId.id}
                                 ELSE @,
                   !.animationFrameId = null,
                   !.calls = Append(@, [cb |-> "stop", arg |-> [within |-> TRUE]])]

\* start() called by the owner from inside a callback of the receiver;
\* detectPilot() answers false to the poll() it ends with.
startWithin(r) ==
  IF r.running
    THEN [r EXCEPT !.calls = Append(@, [cb |-> "start", arg |-> [within |-> TRUE]])]
    ELSE [reset(r) EXCEPT
            !.running = TRUE,
            !.calls = @ \o <<[cb |-> "start", arg |-> [within |-> TRUE]],
                             [cb |-> "onStatusChange", arg |-> [state |-> "idle"]]>>,
            !.requested = @ + 1,
            !.animationFrameId = [id |-> r.requested + 1],
            !.pending = @ \cup {r.requested + 1}]

\* The owner's code in a callback: nothing that touches the receiver, unless
\* the owner has the plan to call stop(), or stop() and start(), from
\* inside the plan.at-th callback of the tick.
reenter(r) ==
  IF "plan" \notin DOMAIN r THEN r
  ELSE IF Len(r.calls) # r.plan.at THEN r
  ELSE IF r.plan.does = "stop" THEN stopWithin(r)
  ELSE startWithin(stopWithin(r))

notifyStatus(r, status) ==
  reenter([r EXCEPT !.calls = Append(@, [cb |-> "onStatusChange", arg |-> status])])

onMessage(r, message) ==
  reenter([r EXCEPT !.calls = Append(@, [cb |-> "onMessage", arg |-> message])])

onError(r, error) ==
  reenter([r EXCEPT !.calls = Append(@, [cb |-> "onError", arg |-> error])])

handleIdleState(r, pilot) ==
  IF pilot
    THEN notifyStatus([r EXCEPT !.state = "pilot"], [state |-> "pilot"])
    ELSE r

\* A handlePilotState that gives the session up when the pilot ends.
handlePilotStateGivesUp(r, t, pilot) ==
  IF ~pilot
    THEN notifyStatus([r EXCEPT !.state = "idle"], [state |-> "idle"])
    ELSE r

handlePilotState(r, t, pilot) ==
  IF ~pilot
    THEN notifyStatus([r EXCEPT !.state = "gap", !.gapStartTime = t],
                      [state |-> "gap"])
    ELSE r

\* A gap test that wants more than the threshold.
gapElapsedStrictly(elapsed) ==
  elapsed * GAP_THRESHOLD_MULTIPLIER.den > gapMs * GAP_THRESHOLD_MULTIPLIER.num

\* elapsed >= gapMs * GAP_THRESHOLD_MULTIPLIER (300 * 0.6 is exactly 180 in
\* the doubles of the source).
gapElapsed(elapsed) ==
  elapsed * GAP_THRESHOLD_MULTIPLIER.den >= gapMs * GAP_THRESHOLD_MULTIPLIER.num

handleGapState(r, t) ==
  IF gapElapsed(t - r.gapStartTime)
    THEN notifyStatus([r EXCEPT !.state = "bits", !.bits = <<>>,
                                !.lastBitTime = t],
                      receiving(0, undefined))
    ELSE r

\* A success branch that hands the message over before the status.
succeedMessageFirst(r, message) ==
  notifyStatus(reset(notifyStatus(onMessage(r, message), [state |-> "success"])),
               [state |-> "idle"])

\* A success branch that returns to idle with the buffer as it is.
succeedKeepsBits(r, message) ==
  notifyStatus([onMessage(notifyStatus(r, [state |-> "success"]), message)
                  EXCEPT !.state = "idle", !.gapStartTime = 0,
                         !.lastBitTime = 0],
               [state |-> "idle"])

\* tryDecode's branch for a decoded message.
succeed(r, message) ==
  notifyStatus(reset(onMessage(notifyStatus(r, [state |-> "success"]), message)),
               [state |-> "idle"])

\* A handleTimeout that reports the timeout and keeps the session.
handleTimeoutKeepsSession(r) ==
  onError(notifyStatus(r, [state |-> "error", message |-> "timeout"]),
          [type |-> "timeout",
           message |-> "Receive timeout: too many bits without valid message"])

handleTimeout(r) ==
  notifyStatus(
    reset(onError(notifyStatus(r, [state |-> "error", message |-> "timeout"]),
                  [type |-> "timeout",
                   message |-> "Receive timeout: too many bits without valid message"])),
    [state |-> "idle"])

\* A tryDecode that gives up on the first failed attempt, as
\* ManualBitReceiver's does.
tryDecodeOrFail(r, message) ==
  IF message # null
    THEN succeed(r, message.text)
    ELSE notifyStatus(
           reset(onError(notifyStatus(r, [state |-> "error",
                                          message |-> "decode failed"]),
                         [type |-> "checksum",
                          message |-> "Checksum verification failed"])),
           [state |-> "idle"])

\* tryDecode once Protocol.decode has returned message.
tryDecodeResult(r, message) ==
  IF message # null THEN succeed(r, message.text) ELSE r

tryDecode(r) == tryDecodeResult(r, decode(r.bits))

\* "if (this.bits.length >= 24) this.tryDecode()"
decodeCheck(r) == IF Len(r.bits) >= 24 THEN tryDecode(r) ELSE r

\* A timeout check that never fires.
timeoutCheckNever(r) == r

\* "if (this.bits.length > MAX_BITS_TIMEOUT) this.handleTimeout()"
timeoutCheck(r) ==
  IF Len(r.bits) > MAX_BITS_TIMEOUT THEN handleTimeout(r) ELSE r

\* partialText of the status: "if (partial && partial.text)".
previewOf(partial) ==
  IF partial # null /\ partial.text # <<>> THEN Some(partial.text)
  ELSE undefined

preview(bitArray) ==
  IF Len(bitArray) >= PARTIAL_DECODE_MIN_BITS
    THEN previewOf(decodePartial(bitArray))
    ELSE undefined

\* Math.min(1, length / minBits) with minBits = 24 + 8, in 32nds.
progress(length) == Min2(24 + 8, length)

reportProgress(r) ==
  notifyStatus(r, receiving(progress(Len(r.bits)), preview(r.bits)))

\* A pushBit that leaves lastBitTime as it is.
pushBitKeepsTime(r, t, bit) == [r EXCEPT !.bits = Append(@, bit)]

pushBit(r, t, bit) == [r EXCEPT !.bits = Append(@, bit), !.lastBitTime = t]

\* A handleBitsState that takes a sample without a confident bit for the
\* end of the session.
handleBitsStateGivesUp(r, t, bit) ==
  IF t - r.lastBitTime >= bitInterval
    THEN IF bit # null
           THEN timeoutCheck(decodeCheck(reportProgress(pushBit(r, t, bit.bit))))
           ELSE handleTimeout(r)
    ELSE r

\* A handleBitsState that lets a sample without a confident bit use up
\* its slot.
handleBitsStateSkipsSlot(r, t, bit) ==
  IF t - r.lastBitTime >= bitInterval
    THEN IF bit # null
           THEN timeoutCheck(decodeCheck(reportProgress(pushBit(r, t, bit.bit))))
           ELSE [r EXCEPT !.lastBitTime = t]
    ELSE r

handleBitsState(r, t, bit) ==
  IF t - r.lastBitTime >= bitInterval /\ bit # null
    THEN timeoutCheck(decodeCheck(reportProgress(pushBit(r, t, bit.bit))))
    ELSE r

processFrame(r, t, pilot, bit) ==
  CASE r.state = "idle" -> handleIdleState(r, pilot)
    [] r.state = "pilot" -> handlePilotState(r, t, pilot)
    [] r.state = "gap" -> handleGapState(r, t)
    [] r.state = "bits" -> handleBitsState(r, t, bit)

(***************************************************************************)
(* ManualBitReceiver (src/src/domain/bit-receiver.ts), on an object with   *)
(* the fields state and bits.                                              *)
(***************************************************************************)
setState(r, s) ==
  [r EXCEPT !.state = s,
            !.calls = Append(@, [cb |-> "onStatusChange",
                                 arg |-> IF s = "bits"
                                           THEN [state |-> "receiving",
                                                 progress32 |-> 0,
                                                 partialText |-> undefined]
                                           ELSE [state |-> s]])]

addBit(r, bit) == [r EXCEPT !.bits = Append(@, bit)]

clearBits(r) == [r EXCEPT !.bits = <<>>]

processPilotDetected(r, detected) ==
  IF r.state = "idle" /\ detected
    THEN notifyStatus([r EXCEPT !.state = "pilot"], [state |-> "pilot"])
  ELSE IF r.state = "pilot" /\ ~detected
    THEN notifyStatus([r EXCEPT !.state = "gap"], [state |-> "gap"])
  ELSE r

\* A startBitCollection that keeps what the buffer holds.
startBitCollectionKeepsBits(r) ==
  IF r.state = "gap"
    THEN notifyStatus([r EXCEPT !.state = "bits"], receiving(0, undefined))
    ELSE r

startBitCollection(r) ==
  IF r.state = "gap"
    THEN notifyStatus([r EXCEPT !.state = "bits", !.bits = <<>>],
                      receiving(0, undefined))
    ELSE r

\* ManualBitReceiver.reset
manualReset(r) ==
  notifyStatus([r EXCEPT !.state = "idle", !.bits = <<>>], [state |-> "idle"])

\* A tryDecode that hands a decoded message over twice.
manualTryDecodeResultTwice(r, message) ==
  IF message # null
    THEN manualReset(onMessage(onMessage(notifyStatus(r, [state |-> "success"]),
                                         message.text),
                               message.text))
    ELSE onError(notifyStatus(r, [state |-> "error",
                                  message |-> "decode failed"]),
                 [type |-> "checksum",
                  message |-> "Checksum verification failed"])

\* ManualBitReceiver.tryDecode once Protocol.decode has returned message.
manualTryDecodeResult(r, message) ==
  IF message # null
    THEN manualReset(onMessage(notifyStatus(r, [state |-> "success"]),
                               message.text))
    ELSE onError(notifyStatus(r, [state |-> "error",
                                  message |-> "decode failed"]),
                 [type |-> "checksum",
                  message |-> "Checksum verification failed"])

manualTryDecode(r) == manualTryDecodeResult(r, decode(r.bits))

(***************************************************************************)
(* The physical channel and the browser.  A run carries one named bit      *)
(* stream; every transmission is a pilot, a gap and then the stream, of    *)
(* which detectBit hands out the next bit each time it answers.            *)
(***************************************************************************)
\* Polls the channel may leave without progress in one run: an idle poll
\* without pilot, a poll that still sees the pilot, a due sample without a
\* confident bit.
MaxSlack == 1
\* Transmissions of a stream that fits into the bit budget.
MaxTransmissions == 1
\* start() calls that find the receiver stopped, in one run.
MaxStarts == 2

StreamLength == MAX_BITS_TIMEOUT + 1

\* The bits b followed by zeros up to StreamLength.
Padded(b) == b \o Repeat(0, StreamLength - Len(b))

Streams ==
  [ frame       |-> encode(<<106>>),
    prefixed    |-> <<0, 1, 0, 0, 1>> \o encode(<<106>>),
    bom         |-> encode(<<65279, 106>>),
    empty       |-> encode(<<>>),
    badChecksum |-> FlipBit(encode(<<106>>), 39),
    badLength   |-> FlipBit(encode(<<233, 106>>), 23),
    alternating |-> [i \in 1..StreamLength |-> (i - 1) % 2],
    markerOnly  |-> START_MARKER \o Repeat(0, StreamLength - 8),
    buried      |-> Repeat(0, StreamLength - 40) \o encode(<<106>>),
    \* a frame that decode rejects, then the frame of "j", then silence
    shadowedChecksum |-> Padded(FlipBit(encode(<<106>>), 39) \o encode(<<106>>)),
    shadowedEmpty    |-> Padded(encode(<<>>) \o encode(<<106>>)),
    shadowedLength   |-> Padded(PREAMBLE \o START_MARKER \o byteToBits(201)
                               \o encode(<<106>>)),
    shadowedUtf8     |-> Padded(encodeBytes(<<128>>) \o encode(<<106>>)) ]

LongStreams == {s \in DOMAIN Streams : Len(Streams[s]) > MAX_BITS_TIMEOUT}
ShortStreams == DOMAIN Streams \ LongStreams

\* Streams on which detectBit has a bit for every due sample until the
\* session is over: they decode, or they outlast the bit budget.
SustainedStreams ==
  {s \in DOMAIN Streams : decode(Streams[s]) # null} \cup LongStreams

\* Time between two animation frames: a third of the bit interval, or all
\* of it (the only cadence run against the streams of more than 2000 bits).
FrameTimes(s) ==
  IF s \in LongStreams THEN {bitInterval}
  ELSE {bitInterval \div 3, bitInterval}

\* The streams sent more than once: one that decodes and one that is
\* rejected.
RepeatedStreams == {"frame", "badChecksum"}

TransmissionsOf(s) == IF s \in RepeatedStreams THEN MaxTransmissions ELSE 1

\* The streams of more than 2000 bits are sampled without a stall.
SlackOf(s) == IF s \in LongStreams THEN 0 ELSE MaxSlack

\* The BitReceiver, and the ManualBitReceiver, a method is entered on.
this ==
  [state |-> state, bits |-> bits, gapStartTime |-> gapStartTime,
   lastBitTime |-> lastBitTime, calls |-> <<>>]
manualThis == [state |-> mState, bits |-> mBits, calls |-> <<>>]

\* Whether a sample is due at time t.
Due(t) == state = "bits" /\ t - lastBitTime >= bitInterval

\* What detectPilot() may answer a poll, and start()'s first processFrame.
PilotAnswers ==
  CASE state = "idle" ->
         {a \in BOOLEAN : IF a THEN transmissions > 0 ELSE slack > 0}
    [] state = "pilot" -> {a \in BOOLEAN : a => slack > 0}
    [] OTHER -> {FALSE}
PilotAnswersAtStart == {a \in BOOLEAN : a => transmissions > 0}

\* What detectBit() may answer at time t.
BitAnswers(t) ==
  IF Due(t)
    THEN {Bit(Streams[stream][i]) : i \in {fed + 1} \cap DOMAIN Streams[stream]}
           \cup {x \in {null} : slack > 0}
    ELSE {null}

\* A poll that made no progress though it could have.
Stalled(t, pilot, bit) ==
  \/ state = "idle" /\ ~pilot
  \/ state = "pilot" /\ pilot
  \/ Due(t) /\ bit = null

\* The fields of the BitReceiver, and the callbacks made, after a method.
Leave(name, r) ==
  /\ state' = r.state
  /\ bits' = r.bits
  /\ gapStartTime' = r.gapStartTime
  /\ lastBitTime' = r.lastBitTime
  /\ calls' = r.calls
  /\ op' = name
  /\ pre' = [state |-> state, length |-> Len(bits)]
  /\ UNCHANGED <<mState, mBits>>

ManualLeave(name, r) ==
  /\ mState' = r.state
  /\ mBits' = r.bits
  /\ calls' = r.calls
  /\ op' = name
  /\ pre' = [state |-> mState, length |-> Len(mBits)]
  /\ sampled' = null
  /\ UNCHANGED <<state, bits, gapStartTime, lastBitTime, animationFrameId,
                 running>>
  /\ UNCHANGED <<driven, hostVars, codecVars, serviceVars>>

(***************************************************************************)
(* Receiver runs.                                                          *)
(***************************************************************************)
\* No codec call is part of a receiver run.
CodecUnused ==
  /\ cStep = "none"
  /\ cMessage = <<>>
  /\ cFrame = <<>>
  /\ cKind = "none"
  /\ cGarbage = <<>>
  /\ cFlip = -1
  /\ cInput = <<>>
  /\ cResult = null
  /\ cMid = <<>>

\* A BitReceiver constructed on a channel that carries the stream s.
BitReceiverOn(s) ==
  /\ driven = "BitReceiver"
  /\ stream = s
  /\ frameMs \in FrameTimes(s)
  /\ transmissions = TransmissionsOf(s)
  /\ slack = SlackOf(s)
  /\ Constructed
  /\ CodecUnused

\* A ManualBitReceiver whose caller has the stream s to add.
ManualOn(s) ==
  /\ driven = "ManualBitReceiver"
  /\ stream = s
  /\ frameMs = 0
  /\ transmissions = 0
  /\ slack = 0
  /\ Constructed
  /\ CodecUnused

\* requestAnimationFrame(() => this.poll())
requestAnimationFrame ==
  /\ requested' = requested + 1
  /\ animationFrameId' = Id(requested + 1)

\* A start() without the test of this.running.
startAlways ==
  /\ driven = "BitReceiver"
  /\ sampled' = null
  /\ \E pilot \in PilotAnswersAtStart :
       /\ starts < MaxStarts
       /\ starts' = starts + 1
       /\ running' = TRUE
       /\ Leave("start",
                processFrame(notifyStatus(reset(this), [state |-> "idle"]),
                             now, pilot, null))
       /\ requestAnimationFrame
       /\ pending' = pending \cup {requested + 1}
       /\ transmissions' = IF pilot THEN transmissions - 1 ELSE transmissions
       /\ fed' = IF pilot THEN 0 ELSE fed
       /\ UNCHANGED now
  /\ UNCHANGED <<driven, stream, frameMs, slack, codecVars, serviceVars>>

\* BitReceiver.start(), detectPilot() answering pilot to its first poll.
start ==
  /\ driven = "BitReceiver"
  /\ sampled' = null
  /\ IF running
       THEN /\ Leave("start", this)
            /\ UNCHANGED <<animationFrameId, running, now, pending, requested,
                           fed, transmissions, starts>>
       ELSE \E pilot \in PilotAnswersAtStart :
              /\ starts < MaxStarts
              /\ starts' = starts + 1
              /\ running' = TRUE
              /\ Leave("start",
                       processFrame(notifyStatus(reset(this), [state |-> "idle"]),
                                    now, pilot, null))
              /\ requestAnimationFrame
              /\ pending' = pending \cup {requested + 1}
              /\ transmissions' = IF pilot THEN transmissions - 1
                                  ELSE transmissions
              /\ fed' = IF pilot THEN 0 ELSE fed
              /\ UNCHANGED now
  /\ UNCHANGED <<driven, stream, frameMs, slack, codecVars, serviceVars>>

\* BitReceiver.stop()
stop ==
  /\ driven = "BitReceiver"
  /\ running' = FALSE
  /\ pending' = IF animationFrameId # null
                  THEN pending \ {animationFrameId.id}
                  ELSE pending
  /\ animationFrameId' = null
  /\ Leave("stop", reset(this))
  /\ sampled' = null
  /\ UNCHANGED <<driven, now, requested, stream, frameMs, fed, transmissions,
                 slack, starts, codecVars, serviceVars>>

\* The browser runs the pending callback id after frameMs: BitReceiver.poll().
pollWith(id, t, pilot, bit) ==
  /\ now' = t
  /\ IF running
       THEN /\ Leave("poll", processFrame(this, t, pilot, bit))
            /\ requestAnimationFrame
            /\ pending' = (pending \ {id}) \cup {requested + 1}
            /\ sampled' = IF Due(t) /\ bit # null THEN bit ELSE null
            /\ transmissions' = IF state = "idle" /\ pilot
                                  THEN transmissions - 1
                                  ELSE transmissions
            /\ fed' = IF state = "idle" /\ pilot THEN 0
                      ELSE IF Due(t) /\ bit # null THEN fed + 1
                      ELSE fed
            /\ slack' = IF Stalled(t, pilot, bit) THEN slack - 1 ELSE slack
       ELSE /\ Leave("poll", this)
            /\ pending' = pending \ {id}
            /\ sampled' = null
            /\ UNCHANGED <<animationFrameId, requested, transmissions, fed,
                           slack>>
  /\ UNCHANGED <<driven, running, stream, frameMs, starts, codecVars,
                 serviceVars>>

poll ==
  /\ driven = "BitReceiver"
  /\ \E id \in pending :
       \E pilot \in PilotAnswers :
         \E bit \in BitAnswers(now + frameMs) :
           pollWith(id, now + frameMs, pilot, bit)

\* The methods of ManualBitReceiver.  addBit is given the caller's stream,
\* bit by bit from where the buffer stands.
Manual_setState ==
  /\ driven = "ManualBitReceiver"
  /\ \E s \in ReceiverStates : ManualLeave("setState", setState(manualThis, s))

Manual_addBit ==
  /\ driven = "ManualBitReceiver"
  /\ Len(mBits) < Len(Streams[stream])
  /\ ManualLeave("addBit", addBit(manualThis, Streams[stream][Len(mBits) + 1]))

Manual_clearBits ==
  /\ driven = "ManualBitReceiver"
  /\ ManualLeave("clearBits", clearBits(manualThis))

Manual_processPilotDetected ==
  /\ driven = "ManualBitReceiver"
  /\ \E detected \in BOOLEAN :
       ManualLeave("processPilotDetected",
                   processPilotDetected(manualThis, detected))

Manual_startBitCollection ==
  /\ driven = "ManualBitReceiver"
  /\ ManualLeave("startBitCollection", startBitCollection(manualThis))

Manual_tryDecode ==
  /\ driven = "ManualBitReceiver"
  /\ ManualLeave("tryDecode", manualTryDecode(manualThis))

Manual_reset ==
  /\ driven = "ManualBitReceiver"
  /\ ManualLeave("reset", manualReset(manualThis))

ManualNext ==
  \/ Manual_setState
  \/ Manual_addBit
  \/ Manual_clearBits
  \/ Manual_processPilotDetected
  \/ Manual_startBitCollection
  \/ Manual_tryDecode
  \/ Manual_reset

\* Either receiver under every method call its owner can make, on the
\* streams within the bit budget.
Init == \E s \in ShortStreams : BitReceiverOn(s) \/ ManualOn(s)

Next == start \/ stop \/ poll \/ ManualNext

Spec == Init /\ [][Next]_vars

\* A BitReceiver that is started and left to poll, on every stream.
SessionInit == \E s \in DOMAIN Streams : BitReceiverOn(s)

SessionNext == start \/ poll

SpecSession == SessionInit /\ [][SessionNext]_vars

\* The streams whose first frame decode rejects and whose second frame is
\* valid, under start(), stop() and the animation frames.
ShadowedStreams ==
  {"shadowedChecksum", "shadowedEmpty", "shadowedLength", "shadowedUtf8"}

ShadowedInit == \E s \in ShadowedStreams : BitReceiverOn(s)

ShadowedNext == start \/ stop \/ poll

SpecShadowed == ShadowedInit /\ [][ShadowedNext]_vars

\* The streams that have a bit for every due sample.
LiveInit == \E s \in SustainedStreams : BitReceiverOn(s)

\* The browser runs a pending animation frame callback.  Every step of poll
\* is one of animationFrame, no step of start is, and animationFrame is
\* enabled exactly where poll is.
animationFrame ==
  /\ driven = "BitReceiver"
  /\ pending # {}
  /\ PilotAnswers # {}
  /\ BitAnswers(now + frameMs) # {}
  /\ now' = now + frameMs

\* The same runs, the browser running the callback whenever one is pending
\* (requestAnimationFrame in poll keeps one pending while running).
SpecLive == LiveInit /\ [][SessionNext]_vars /\ WF_now(animationFrame)

\* A ManualBitReceiver under every method call, on the short streams.
ManualInit == \E s \in ShortStreams : ManualOn(s)

SpecManual == ManualInit /\ [][ManualNext]_vars

\* A ManualBitReceiver that is put into a state and fed the alternating
\* bits, one more than the bit budget.
FeedInit == ManualOn("alternating")

FeedNext == Manual_setState \/ Manual_addBit

SpecFeed == FeedInit /\ [][FeedNext]_vars

\* An animation frame that comes after more than two bit intervals, as in
\* a tab the browser throttles.
SlowFrame == (2 * bitInterval) + (bitInterval \div 3)

\* A BitReceiver that is started and left to poll on a short stream, at
\* one of the three cadences.
CadenceInit ==
  /\ driven = "BitReceiver"
  /\ stream \in ShortStreams
  /\ frameMs \in FrameTimes(stream) \cup {SlowFrame}
  /\ transmissions = TransmissionsOf(stream)
  /\ slack = SlackOf(stream)
  /\ Constructed
  /\ CodecUnused

SpecCadence == CadenceInit /\ [][SessionNext]_vars

\* Polls to which the channel has no bit to give after its transmission
\* has ended.
MaxStallPolls == 4

\* The streams that end without a frame that decodes.
StallStreams == ShortStreams \ SustainedStreams

\* A BitReceiver that is started and left to poll on a channel whose
\* transmission ends without a valid frame and that has no bit to give
\* from then on.
StallInit ==
  /\ driven = "BitReceiver"
  /\ stream \in StallStreams
  /\ frameMs \in FrameTimes(stream)
  /\ transmissions = 1
  /\ slack = MaxStallPolls
  /\ Constructed
  /\ CodecUnused

SpecStall == StallInit /\ [][SessionNext]_vars

(***************************************************************************)
(* MessageService (src/src/application/index.ts), on the record s of the   *)
(* store's and the channels' fields; s.calls collects the calls it makes   *)
(* on the store and on the channel, in order.  An async method is cut at   *)
(* its await of channel.send / channel.startReceive: the part before runs  *)
(* in the caller's turn, the part after when the promise settles.          *)
(***************************************************************************)
\* User events handled in one run.
MaxEvents == 3

\* The channels whose signal panel opens expanded.
VisualChannels == {"brightness", "color", "grid", "qr"}

\* The service with the store and the channels, a method is entered on.
service ==
  [transceiverState |-> transceiverState, currentChannel |-> currentChannel,
   serviceChannel |-> serviceChannel, isSending |-> isSending,
   isReceiving |-> isReceiving, tasks |-> tasks, issued |-> issued,
   calls |-> <<>>]

noted(s, cb, arg) == [s EXCEPT !.calls = Append(@, [cb |-> cb, arg |-> arg])]

\* A promise the service awaits; after is what the send that awaits it in
\* its finally block has to settle with, "none" when no send awaits it.
Pending(id, awaits, ch, wasReceiving) ==
  [id |-> id, awaits |-> awaits, channel |-> ch, wasReceiving |-> wasReceiving,
   after |-> "none"]

\* Store.setTransceiverState
setTransceiverState(s, v) ==
  noted([s EXCEPT !.transceiverState = v], "store.setTransceiverState", v)

\* channel.stopReceive() (BaseChannel: _isReceiving = false)
channel_stopReceive(s, ch) ==
  noted([s EXCEPT !.isReceiving[ch] = FALSE], "channel.stopReceive", ch)

\* channel.send(message) up to its first await: _isSending = true.
channel_send(s, ch, wasReceiving) ==
  noted([s EXCEPT !.isSending[ch] = TRUE,
                 !.issued = @ + 1,
                 !.tasks = @ \cup {Pending(s.issued + 1, "send", ch, wasReceiving)}],
       "channel.send", ch)

\* channel.startReceive() up to its first await, on a channel that is not
\* receiving (the service has just tested isReceiving()).
channel_startReceive(s, ch) ==
  noted([s EXCEPT !.issued = @ + 1,
                 !.tasks = @ \cup {Pending(s.issued + 1, "startReceive", ch, FALSE)}],
       "channel.startReceive", ch)

\* MessageService.startReceive up to "await channel.startReceive()".
startReceive(s) ==
  IF s.isReceiving[s.currentChannel] THEN s
  ELSE channel_startReceive(
         noted(noted(setTransceiverState(s, "receiving"),
                   "store.addSystemMessage", "receive started"),
              "store.setSignalPanelState",
              IF s.currentChannel \in VisualChannels THEN "expanded" ELSE "open"),
         s.currentChannel)

\* MessageService.startReceive from the settling of channel.startReceive
\* on; the channel sets _isReceiving when its own start succeeded.
startReceiveEnd(s, task, ok) ==
  IF ok
    THEN [s EXCEPT !.tasks = @ \ {task},
                   !.isReceiving[task.channel] = TRUE,
                   !.serviceChannel = task.channel]
    ELSE setTransceiverState(
           noted([s EXCEPT !.tasks = @ \ {task}],
                "store.addSystemMessage", "receive start error"),
           "idle")

\* MessageService.stopReceive
stopReceive(s) ==
  IF ~s.isReceiving[s.currentChannel] THEN s
  ELSE noted(noted(noted(setTransceiverState(
                        channel_stopReceive(s, s.currentChannel), "idle"),
                      "store.setReceiverStatus", "idle"),
                 "store.setSignalPanelState", "collapsed"),
            "store.addSystemMessage", "receive stopped")

\* MessageService.toggleReceive
toggle(s) ==
  IF s.isReceiving[s.currentChannel] THEN stopReceive(s) ELSE startReceive(s)

\* MessageService.send up to "await channel.send(message)"; 'Already
\* sending' is thrown before anything is changed.
sendBegin(s) ==
  IF s.isSending[s.currentChannel] THEN s
  ELSE channel_send(
         noted(setTransceiverState(
                IF s.isReceiving[s.currentChannel]
                  THEN channel_stopReceive(s, s.currentChannel)
                  ELSE s,
                "sending"),
              "store.addSystemMessage", "sending"),
         s.currentChannel, s.isReceiving[s.currentChannel])

\* The try or catch block of send, channel.send having settled.
sendOutcome(s, task, ok) ==
  IF ok
    THEN noted(noted(noted(s, "store.addSentMessage", task.channel),
                   "store.addSystemMessage", "sent"),
              "store.clearInput", "")
    ELSE noted(s, "store.addSystemMessage", "send error")

\* What the try or catch block of send completes with: normally, or by
\* rethrowing the error of channel.send.
sendCompletion(ok) == IF ok THEN "fulfilled" ELSE "SendError"

\* The promises that startReceive, called in the finally block of a send
\* that completes with completion, has begun to await.
awaited(s, began, completion) ==
  [began EXCEPT !.tasks =
     s.tasks \cup {[t EXCEPT !.after = completion] : t \in began.tasks \ s.tasks}]

\* The finally block of send up to "await this.startReceive()".
sendFinally(s, task, ok) ==
  IF task.wasReceiving
    THEN awaited(setTransceiverState(s, "idle"),
                 startReceive(setTransceiverState(s, "idle")),
                 sendCompletion(ok))
    ELSE setTransceiverState(s, "idle")

\* MessageService.send from the settling of channel.send on; the channel
\* has cleared _isSending in its own finally.
sendEnd(s, task, ok) ==
  sendFinally(sendOutcome([s EXCEPT !.tasks = @ \ {task},
                                    !.isSending[task.channel] = FALSE],
                          task, ok),
              task, ok)

\* How the promise of send stands when send is left at its await of
\* channel.send: rejected with 'Already sending', or pending.
sendEntered(s) ==
  IF s.isSending[s.currentChannel] THEN "AlreadySending" ELSE "pending"

\* How the promise of send stands when channel.send has settled: pending
\* while the finally block awaits startReceive, else settled with the
\* completion of the try or catch block.
sendLeft(s, task, ok) ==
  IF task.wasReceiving /\ ~s.isReceiving[s.currentChannel]
    THEN "pending"
    ELSE sendCompletion(ok)

\* How the promise of a send stands whose finally block awaited the
\* startReceive of task: an error thrown in a finally block replaces the
\* completion of the try or catch block.
sendResumed(task, ok) ==
  IF task.after = "none" THEN "none"
  ELSE IF ok THEN task.after ELSE "ReceiveStartError"

\* MessageService.switchChannel up to "await this.startReceive()".
switchTo(s, id) ==
  LET stopped == IF s.serviceChannel # noChannel /\ s.isReceiving[s.serviceChannel]
                   THEN channel_stopReceive(s, s.serviceChannel)
                   ELSE s
      updated == noted(setTransceiverState(
                        noted([stopped EXCEPT !.currentChannel = id],
                             "store.setChannel", id),
                        "idle"),
                      "store.setReceiverStatus", "idle")
      fetched == [updated EXCEPT !.serviceChannel = id]
  IN  IF s.transceiverState = "receiving" THEN startReceive(fetched) ELSE fetched

(***************************************************************************)
(* MessageService runs: the user's events as the App hands them to the     *)
(* service, and the channels' promises settling.                           *)
(***************************************************************************)
\* What a step found: the store's channel, that channel's flags, for a
\* settling promise its task and outcome, and how the promise of the send
\* the step ran in stands at the end of the step ("none": it ran in no send).
Found(task, ok, promise) ==
  [channel |-> currentChannel,
   receiving |-> isReceiving[currentChannel],
   sending |-> isSending[currentChannel],
   task |-> task, ok |-> ok, promise |-> promise]

noTask == Pending(0, "nothing", noChannel, FALSE)

\* The fields of the store, the service and the channels after a step.
ServiceLeave(name, s, seen) ==
  /\ transceiverState' = s.transceiverState
  /\ currentChannel' = s.currentChannel
  /\ serviceChannel' = s.serviceChannel
  /\ isSending' = s.isSending
  /\ isReceiving' = s.isReceiving
  /\ tasks' = s.tasks
  /\ issued' = s.issued
  /\ calls' = s.calls
  /\ op' = name
  /\ pre' = seen
  /\ sampled' = null
  /\ UNCHANGED <<driven, objectVars, hostVars, codecVars, selectorVars,
                 channelVars>>

ServiceInit ==
  /\ driven = "MessageService"
  /\ stream = "none"
  /\ frameMs = 0
  /\ transmissions = 0
  /\ slack = 0
  /\ Constructed
  /\ CodecUnused

\* The send button or the Enter key: App.handleSend, MessageService.send.
send ==
  /\ driven = "MessageService"
  /\ events < MaxEvents
  /\ events' = events + 1
  /\ ServiceLeave("send", sendBegin(service),
                  Found(noTask, TRUE, sendEntered(service)))

\* channel.send settles, fulfilled or rejected, and send continues.
sendSettled ==
  /\ driven = "MessageService"
  /\ \E task \in tasks :
       /\ task.awaits = "send"
       /\ \E ok \in BOOLEAN :
            ServiceLeave("sendSettled", sendEnd(service, task, ok),
                         Found(task, ok, sendLeft(service, task, ok)))
  /\ UNCHANGED events

\* The receive button, disabled while the transceiver state is 'sending':
\* App.handleToggleReceive, MessageService.toggleReceive.
toggleReceive ==
  /\ driven = "MessageService"
  /\ events < MaxEvents
  /\ transceiverState # "sending"
  /\ events' = events + 1
  /\ ServiceLeave("toggleReceive", toggle(service), Found(noTask, TRUE, "none"))

\* channel.startReceive settles and startReceive continues.
startReceiveSettled ==
  /\ driven = "MessageService"
  /\ \E task \in tasks :
       /\ task.awaits = "startReceive"
       /\ \E ok \in BOOLEAN :
            ServiceLeave("startReceiveSettled",
                         startReceiveEnd(service, task, ok),
                         Found(task, ok, sendResumed(task, ok)))
  /\ UNCHANGED events

\* A channel card: App.handleChannelSelect, MessageService.switchChannel.
switchChannel ==
  /\ driven = "MessageService"
  /\ events < MaxEvents
  /\ events' = events + 1
  /\ \E id \in ChannelIds :
       ServiceLeave("switchChannel", switchTo(service, id), Found(noTask, TRUE, "none"))

ServiceNext ==
  \/ send
  \/ sendSettled
  \/ toggleReceive
  \/ startReceiveSettled
  \/ switchChannel

SpecService == ServiceInit /\ [][ServiceNext]_vars

(***************************************************************************)
(* createSelector (src/src/application/store.ts) for the selector          *)
(* (state) => state.currentChannel, made from the store as constructed,    *)
(* and the Store methods that update the state.  A subscription is the     *)
(* closure selector.subscribe hands to store.subscribe, named by the       *)
(* number of the subscribe call; the listeners themselves do not touch     *)
(* the store.                                                              *)
(***************************************************************************)
\* subscribe calls and store updates in one run.
MaxSubscriptions == 2
MaxUpdates == 3

InputTexts == {"", "test"}

\* The store and the selector a method is entered on.
selecting ==
  [currentChannel |-> currentChannel, inputText |-> inputText,
   currentValue |-> currentValue, listeners |-> listeners, calls |-> <<>>]

\* selector: (state) => state.currentChannel
selector(s) == s.currentChannel

\* The closure of selector.subscribe for subscription id, called with the
\* store's state.
selectorListener(s, id) ==
  IF selector(s) # s.currentValue
    THEN [s EXCEPT !.currentValue = selector(s),
                   !.calls = Append(@, [cb |-> "listener",
                                        arg |-> <<id, selector(s)>>])]
    ELSE s

\* Store.notifyListeners, from the i-th listener on.
RECURSIVE notifyFrom(_, _)
notifyFrom(s, i) ==
  IF i > Len(s.listeners) THEN s
  ELSE notifyFrom(selectorListener(s, s.listeners[i]), i + 1)

notifyListeners(s) == notifyFrom(s, 1)

\* Store.setState: the updaters of the convenience methods return a new
\* object, so every call notifies.
storeSetState(updated) == notifyListeners(updated)

\* Store.setChannel, Store.setInputText
storeSetChannel(s, channel) == storeSetState([s EXCEPT !.currentChannel = channel])
storeSetInputText(s, text) == storeSetState([s EXCEPT !.inputText = text])

\* selector.subscribe(listener): store.subscribe adds the closure.
selectorSubscribe(s, id) == [s EXCEPT !.listeners = Append(@, id)]

\* The function store.subscribe returned: listeners.delete(closure).
selectorUnsubscribe(s, id) ==
  [s EXCEPT !.listeners = SelectSeq(@, LAMBDA x : x # id)]

\* What a step found: the selected value of the state, the selector's value
\* and the subscriptions.
Selected ==
  [selected |-> currentChannel, value |-> currentValue, listeners |-> listeners]

SelectorLeave(name, s) ==
  /\ currentChannel' = s.currentChannel
  /\ inputText' = s.inputText
  /\ currentValue' = s.currentValue
  /\ listeners' = s.listeners
  /\ calls' = s.calls
  /\ op' = name
  /\ pre' = Selected
  /\ sampled' = null
  /\ UNCHANGED <<driven, objectVars, hostVars, codecVars, transceiverState,
                 serviceChannel, isSending, isReceiving, tasks, channelVars>>

SelectorInit ==
  /\ driven = "Selector"
  /\ stream = "none"
  /\ frameMs = 0
  /\ transmissions = 0
  /\ slack = 0
  /\ Constructed
  /\ CodecUnused

subscribe ==
  /\ driven = "Selector"
  /\ issued < MaxSubscriptions
  /\ issued' = issued + 1
  /\ SelectorLeave("subscribe", selectorSubscribe(selecting, issued + 1))
  /\ UNCHANGED events

unsubscribe ==
  /\ driven = "Selector"
  /\ \E i \in DOMAIN listeners :
       SelectorLeave("unsubscribe", selectorUnsubscribe(selecting, listeners[i]))
  /\ UNCHANGED <<issued, events>>

setChannel ==
  /\ driven = "Selector"
  /\ events < MaxUpdates
  /\ events' = events + 1
  /\ \E channel \in ChannelIds :
       SelectorLeave("setChannel", storeSetChannel(selecting, channel))
  /\ UNCHANGED issued

setInputText ==
  /\ driven = "Selector"
  /\ events < MaxUpdates
  /\ events' = events + 1
  /\ \E text \in InputTexts :
       SelectorLeave("setInputText", storeSetInputText(selecting, text))
  /\ UNCHANGED issued

SelectorNext ==
  \/ subscribe
  \/ unsubscribe
  \/ setChannel
  \/ setInputText

SpecSelector == SelectorInit /\ [][SelectorNext]_vars

(***************************************************************************)
(* Properties of the codec.                                                *)
(***************************************************************************)
\* A string with a surrogate code unit that is not half of a pair.
HasLoneSurrogate(m) ==
  \E i \in 1..Len(m) :
    \/ IsHighSurrogate(m[i]) /\ ~(i < Len(m) /\ IsLowSurrogate(m[i + 1]))
    \/ IsLowSurrogate(m[i]) /\ ~(i > 1 /\ IsHighSurrogate(m[i - 1]))

\* Whether bits holds 8 consecutive ones somewhere.
HasRunOfEightOnes(bitArray) == \E i \in 0..(Len(bitArray) - 8) : allOnes(bitArray, i)

\* C1 (as claimed): for every text m of at most 200 UTF-8 bytes,
\* decode(encode(m)) returns exactly m.
C1_RoundTrip ==
  (cStep = "decoded" /\ cKind = "exact") => cResult = Some(cMessage)

\* C2 (as claimed): for every encodable m and every bit sequence g,
\* decode(g ++ encode(m)) returns m.  Stated for the messages m that
\* decode(encode(m)) returns unchanged, so that a violation is one that the
\* prepended bits cause.
C2_AnyPrefix ==
  (cStep = "decoded" /\ cKind = "prepended" /\ decode(cFrame) = Some(cMessage))
    => cResult = Some(cMessage)

\* C2 (amended): when g followed by the preamble's first bit holds no run of
\* 8 consecutive ones, decode(g ++ encode(m)) returns what decode(encode(m))
\* returns.
C2_PrefixWithoutMarker ==
  (cStep = "decoded" /\ cKind = "prepended" /\ ~HasRunOfEightOnes(Append(cGarbage, 1)))
    => cResult = decode(cFrame)

\* C2 witness: the bits 0,1,0,0,1 were put in front of a frame and decode
\* returned the message.
C2_Witness ==
  /\ cStep = "decoded"
  /\ cKind = "prepended"
  /\ cGarbage = <<0, 1, 0, 0, 1>>
  /\ cMessage # <<>>
  /\ cResult = Some(cMessage)

\* C3 (as claimed): decode of a valid encoding with one bit inverted returns
\* none or the original message, never another text.  Stated for the
\* messages m that decode(encode(m)) returns unchanged, so that a violation is
\* one that the inverted bit causes.
C3_NoFalsePositive ==
  (cStep = "decoded" /\ cKind = "flipped" /\ decode(cFrame) = Some(cMessage))
    => cResult \in {null, Some(cMessage)}

\* The number the 8 bits from 0-based index i on spell, first bit highest.
FieldAt(bitArray, i) ==
  128 * bitArray[i + 1] + 64 * bitArray[i + 2] + 32 * bitArray[i + 3]
    + 16 * bitArray[i + 4] + 8 * bitArray[i + 5] + 4 * bitArray[i + 6]
    + 2 * bitArray[i + 7] + bitArray[i + 8]

\* Bit k (7 the highest, 0 the lowest) of a byte.
BitOfByte(byte, k) == (byte \div (2 ^ k)) % 2

\* C11: decode returns none on every proper prefix of encode(m).
C11_Truncation ==
  (cStep = "decoded" /\ cKind = "truncated") => cResult = null

\* C11 witness: decode was given the frame of a non-empty message without
\* its last 10 bits and returned none.
C11_Witness ==
  /\ cStep = "decoded"
  /\ cKind = "truncated"
  /\ cMessage # <<>>
  /\ Len(cInput) = Len(cFrame) - 10
  /\ cResult = null

\* C12: decode returns none on encode(m) with one bit of the data bytes or
\* of the checksum byte inverted (the bits from index 24 on).
C12_ChecksumSensitivity ==
  (cStep = "decoded" /\ cKind = "flipped" /\ cFlip >= 24) => cResult = null

\* C12 witness: the final bit of the frame of a non-empty message was
\* inverted and decode returned none.
C12_Witness ==
  /\ cStep = "decoded"
  /\ cKind = "flipped"
  /\ cMessage # <<>>
  /\ cFlip = Len(cFrame) - 1
  /\ cResult = null

\* C13: encode(m) throws MessageTooLongError exactly when m has more than
\* 200 UTF-8 bytes, and canEncode(m) is true exactly when encode(m) does not
\* throw.
C13_LengthBound ==
  cStep \in {"encoded", "thrown", "decoded"} =>
    /\ cStep = "thrown" <=> Len(TextEncode(cMessage)) > 200
    /\ canEncode(cMessage) <=> cStep # "thrown"

\* C13 witness: encode threw on 101 two-byte characters (202 bytes), which
\* canEncode refuses.
C13_Witness ==
  /\ cStep = "thrown"
  /\ cMessage = Repeat(233, 101)
  /\ ~canEncode(cMessage)

C16_GridRoundTrip ==
  (driven = "GridProtocol" /\ cStep = "decoded" /\ cKind = "exact")
    => cResult = Some(cMessage)

\* C17: cellsToFrame(frameToCells(f)) = f for every frame f of two bytes,
\* frameToCells(cellsToFrame(c)) = c for every array c of 16 bits, and
\* frameToCells puts bit 7..0 of the high byte into cells 0..7 and bit 7..0
\* of the low byte into cells 8..15.
C17_CellMapping ==
  /\ (driven = "GridProtocol" /\ cStep = "restored") => cResult = cInput
  /\ (driven = "GridProtocol" /\ cStep \in {"converted", "restored"}
        /\ cKind = "frame") =>
       \A k \in 0..7 : /\ cMid[k + 1] = BitOfByte(cInput[1], 7 - k)
                       /\ cMid[k + 9] = BitOfByte(cInput[2], 7 - k)

\* C17 witness: the frame [0b10101010, 0b01010101] went to cells and back.
C17_Witness ==
  /\ driven = "GridProtocol"
  /\ cStep = "restored"
  /\ cKind = "frame"
  /\ cInput = <<170, 85>>
  /\ cMid = <<1, 0, 1, 0, 1, 0, 1, 0, 0, 1, 0, 1, 0, 1, 0, 1>>
  /\ cResult = <<170, 85>>

\* C18: GridProtocol.decode returns none on the frames of encode(m) with
\* the checksum byte, at offset 1 + N of the payload, changed to another
\* value.
C18_GridChecksum ==
  (driven = "GridProtocol" /\ cStep = "decoded" /\ cKind = "corrupted")
    => cResult = null

\* C18 witness: the checksum byte of the frames of a non-empty message,
\* which decode as they are, was changed and decode returned none.
C18_Witness ==
  /\ driven = "GridProtocol"
  /\ cStep = "decoded"
  /\ cKind = "corrupted"
  /\ cMessage # <<>>
  /\ gridDecode(cFrame) # null
  /\ cInput # cFrame
  /\ cResult = null

(***************************************************************************)
(* Properties of the receivers.                                            *)
(***************************************************************************)
\* The arguments of the callbacks of one kind the last method made.
ArgsOf(kind) ==
  LET made == SelectSeq(calls, LAMBDA c : c.cb = kind)
  IN  [i \in 1..Len(made) |-> made[i].arg]

\* Whether the call c is onStatusChange with a status of state s.
IsStatus(c, s) == c.cb = "onStatusChange" /\ c.arg.state = s

\* Whether the call c is onError with an error of type type.
IsError(c, type) == c.cb = "onError" /\ c.arg.type = type

\* The bits the channel has handed out in this transmission.
Sampled == SubSeq(Streams[stream], 1, fed)

\* A poll of the BitReceiver that pushed a bit.
PushedBit == driven = "BitReceiver" /\ op = "poll" /\ sampled # null

\* Non-empty messages of at most 200 bytes whose frames are among the streams.
SentMessages == {<<106>>, <<65279, 106>>}

\* C4 (as claimed): a BitReceiver that reached the bits state and is fed
\* the bits of encode(m), one per due sample, calls onMessage(m) once, on
\* the poll that pushes the last bit and on none before it, and is then idle
\* with an empty buffer.
C4_SuccessfulReception ==
  \A m \in SentMessages :
    (PushedBit /\ Streams[stream] = encode(m)) =>
      IF fed = Len(encode(m))
        THEN ArgsOf("onMessage") = <<m>> /\ state = "idle" /\ bits = <<>>
        ELSE ArgsOf("onMessage") = <<>> /\ state = "bits" /\ bits = Sampled

\* C5: the buffer of a BitReceiver never holds more than 2000 bits once a
\* method has returned, and the poll whose bit is the 2001st, no message
\* being decoded, makes the calls status error 'timeout', onError of type
\* 'timeout', status idle in this order and leaves the receiver idle with an
\* empty buffer.
C5_TimeoutBound ==
  driven = "BitReceiver" =>
    /\ Len(bits) <= MAX_BITS_TIMEOUT
    /\ (PushedBit /\ pre.length + 1 > MAX_BITS_TIMEOUT
          /\ ArgsOf("onMessage") = <<>>) =>
         /\ Len(calls) = 4
         /\ IsStatus(calls[1], "receiving")
         /\ IsStatus(calls[2], "error") /\ calls[2].arg.message = "timeout"
         /\ IsError(calls[3], "timeout")
         /\ IsStatus(calls[4], "idle")
         /\ state = "idle"
         /\ bits = <<>>
         /\ gapStartTime = 0
         /\ lastBitTime = 0

\* C5 witness: the 2001st bit of the alternating stream was pushed and the
\* receiver reported the timeout.
C5_Witness ==
  /\ PushedBit
  /\ stream = "alternating"
  /\ pre.length = MAX_BITS_TIMEOUT
  /\ \E i \in DOMAIN calls : IsError(calls[i], "timeout")
  /\ state = "idle"

\* C6: BitReceiver.stop() and ManualBitReceiver.reset(), called in any
\* reachable state, leave the state idle and the buffer empty, and a second
\* call changes no field of the receiver.
C6_IdempotentReset ==
  /\ (driven = "BitReceiver" /\ op = "stop") =>
       /\ state = "idle"
       /\ bits = <<>>
       /\ ~running
       /\ animationFrameId = null
       /\ reset(this) = this
  /\ (driven = "ManualBitReceiver" /\ op = "reset") =>
       /\ mState = "idle"
       /\ mBits = <<>>
       /\ manualReset(manualThis).state = mState
       /\ manualReset(manualThis).bits = mBits

\* C6 witness: stop() was called on a BitReceiver that was collecting bits
\* and held some.
C6_Witness ==
  /\ driven = "BitReceiver"
  /\ op = "stop"
  /\ pre.state = "bits"
  /\ pre.length > 0
  /\ state = "idle"
  /\ bits = <<>>

\* A poll that ended a session by a decoded message or by the timeout, after
\* at most 2001 pushed bits.
SessionEnded ==
  /\ PushedBit
  /\ pre.state = "bits"
  /\ pre.length <= MAX_BITS_TIMEOUT
  /\ state = "idle"
  /\ \/ ArgsOf("onMessage") # <<>>
     \/ \E i \in DOMAIN calls : IsError(calls[i], "timeout")

C9_FailureIsTerminal ==
  (driven = "ManualBitReceiver" /\ op = "tryDecode"
     /\ decode(SubSeq(Streams[stream], 1, pre.length)) = null) =>
    /\ Len(calls) = 2
    /\ IsStatus(calls[1], "error")
    /\ IsError(calls[2], "checksum")
    /\ mState = "idle"
    /\ mBits = <<>>

\* C10: in every method of the BitReceiver an onMessage call comes right
\* after a status success and right before a status idle, and an onError
\* call right after a status error and right before a status idle.
C10_CallbackOrder ==
  driven = "BitReceiver" =>
    \A i \in DOMAIN calls :
      /\ calls[i].cb = "onMessage" =>
           /\ i > 1 /\ IsStatus(calls[i - 1], "success")
           /\ i < Len(calls) /\ IsStatus(calls[i + 1], "idle")
      /\ calls[i].cb = "onError" =>
           /\ i > 1 /\ IsStatus(calls[i - 1], "error")
           /\ i < Len(calls) /\ IsStatus(calls[i + 1], "idle")

\* C19: BitReceiver.start() on a running receiver changes neither the
\* state, the bit buffer nor the timestamps, makes no callback and requests
\* no animation frame.
C19_StartWhileRunning ==
  [][(running /\ start) =>
       /\ UNCHANGED <<state, bits, gapStartTime, lastBitTime, running>>
       /\ UNCHANGED <<animationFrameId, pending, requested>>
       /\ calls' = <<>>]_vars

\* C19 witness: start() returned on a receiver that was collecting bits,
\* having made no callback.
C19_Witness ==
  /\ driven = "BitReceiver"
  /\ op = "start"
  /\ calls = <<>>
  /\ running
  /\ state = "bits"
  /\ pre.state = "bits"
  /\ Len(bits) > 0
  /\ Cardinality(pending) = 1

\* C10 witness: a poll delivered a message between a status success and a
\* status idle.
C10_Witness ==
  /\ PushedBit
  /\ Len(calls) = 4
  /\ IsStatus(calls[2], "success")
  /\ calls[3].cb = "onMessage"
  /\ IsStatus(calls[4], "idle")

(***************************************************************************)
(* Properties of the message service.                                      *)
(***************************************************************************)
\* The positions in calls of the calls of cb on channel ch.
CallsOf(cb, ch) == {i \in DOMAIN calls : calls[i].cb = cb /\ calls[i].arg = ch}

\* A channel has a channel.send in flight.
SendInFlight == \E ch \in ChannelIds : isSending[ch]

\* C20: a send that finds its channel receiving calls channel.stopReceive
\* before channel.send, and receiving is started on that channel again when
\* the send has settled; the store's transceiver state is 'sending' as long
\* as a channel.send is in flight, and 'idle' after a send that was fulfilled
\* on a channel that was not receiving before.
C20_SendProtocol ==
  driven = "MessageService" =>
    /\ (op = "send" /\ pre.receiving /\ CallsOf("channel.send", pre.channel) # {}) =>
         \E i \in CallsOf("channel.stopReceive", pre.channel) :
           \A j \in CallsOf("channel.send", pre.channel) : i < j
    /\ (op = "sendSettled" /\ pre.task.wasReceiving) =>
         CallsOf("channel.startReceive", pre.task.channel) # {}
    /\ SendInFlight => transceiverState = "sending"
    /\ (op = "sendSettled" /\ pre.ok /\ ~pre.task.wasReceiving) =>
         transceiverState = "idle"

\* The positions in calls of the calls of cb, whatever their argument.
Calls(cb) == {i \in DOMAIN calls : calls[i].cb = cb}

\* The promise of a send whose channel.send was rejected settles in this
\* step: with the catch and finally blocks, or with the startReceive its
\* finally block awaited.
FailedSendSettles ==
  \/ op = "sendSettled" /\ ~pre.ok /\ pre.promise # "pending"
  \/ op = "startReceiveSettled" /\ pre.task.after = "SendError"

\* C21: when channel.send rejects, a system message with the send error is
\* appended to the store and no sent message is; send rejects with that same
\* error, and the store's transceiver state is 'idle' when send has settled.
C21_SendFailure ==
  driven = "MessageService" =>
    /\ (op = "sendSettled" /\ ~pre.ok) =>
         /\ \E i \in Calls("store.addSystemMessage") : calls[i].arg = "send error"
         /\ Calls("store.addSentMessage") = {}
    /\ FailedSendSettles =>
         /\ pre.promise = "SendError"
         /\ transceiverState = "idle"

(***************************************************************************)
(* Properties of the selector.                                             *)
(***************************************************************************)
\* The step was a store update.
StoreUpdated == op \in {"setChannel", "setInputText"}

\* The subscriptions called in the step, and the values they were called
\* with.
Notified == {calls[i].arg[1] : i \in DOMAIN calls}
NotifiedWith == {calls[i].arg[2] : i \in DOMAIN calls}

\* C22: a store update that changes the selected value calls every
\* subscribed listener with the new value, and a store update that leaves the
\* selected value as it was calls no listener.
C22_SelectorNotifies ==
  (driven = "Selector" /\ StoreUpdated) =>
    IF currentChannel # pre.selected
      THEN /\ Notified = {listeners[i] : i \in DOMAIN listeners}
           /\ NotifiedWith \subseteq {currentChannel}
      ELSE calls = <<>>

\* C23: get() returns the selector applied to the store's current state.
C23_SelectorGet ==
  driven = "Selector" => currentValue = selector(selecting)

(***************************************************************************)
(* Properties of the BitReceiver's state machine.                          *)
(***************************************************************************)
\* The edges a poll may take.
Edges ==
  {<<"idle", "pilot">>, <<"pilot", "gap">>, <<"gap", "bits">>, <<"bits", "idle">>}

\* C24: a poll of a BitReceiver leaves the state as it is or takes one of
\* the edges idle to pilot, pilot to gap, gap to bits, bits to idle; stop()
\* resets to idle; start() changes nothing on a running receiver and else
\* resets to idle, from where its first poll may take idle to pilot.
C24_AllowedTransitions ==
  driven = "BitReceiver" =>
    /\ op = "poll" => (state = pre.state \/ <<pre.state, state>> \in Edges)
    /\ op = "stop" => state = "idle"
    /\ op = "start" =>
         \/ state = pre.state /\ calls = <<>>
         \/ /\ IsStatus(calls[1], "idle")
            /\ \/ state = "idle" /\ Len(calls) = 1
               \/ state = "pilot" /\ Len(calls) = 2 /\ IsStatus(calls[2], "pilot")

\* A poll that took the last edge of a full round, bits to idle, by a
\* decoded message.
C24_Witness ==
  /\ driven = "BitReceiver"
  /\ op = "poll"
  /\ pre.state = "bits"
  /\ state = "idle"
  /\ \E i \in DOMAIN calls : calls[i].cb = "onMessage"

\* C25: the bit buffer of a BitReceiver is empty whenever the state is idle,
\* pilot or gap, and it is empty when a poll has entered bits.
C25_BufferInvariant ==
  driven = "BitReceiver" =>
    /\ state # "bits" => bits = <<>>
    /\ (op = "poll" /\ pre.state = "gap" /\ state = "bits") => bits = <<>>

\* A poll that went back to idle from a buffer that held bits, and a poll
\* that entered bits: the first by a decoded message.
C25_Witness ==
  /\ driven = "BitReceiver"
  /\ op = "poll"
  /\ pre.state = "bits"
  /\ pre.length >= 24
  /\ state = "idle"
  /\ bits = <<>>
  /\ IsStatus(calls[2], "success")

\* A step that is a poll of a running BitReceiver in the state bits, due
\* for a sample, to which detectBit answers none.
NoConfidencePoll ==
  /\ driven = "BitReceiver"
  /\ running
  /\ state = "bits"
  /\ op' = "poll"
  /\ now' - lastBitTime >= bitInterval
  /\ sampled' = null

\* C26: a due poll in the state bits to which detectBit answers none
\* appends no bit, leaves lastBitTime and the state as they are and makes no
\* callback, so that the next poll is due for a sample as well.
C26_NoConfidenceSample ==
  [][NoConfidencePoll =>
       /\ UNCHANGED <<state, bits, lastBitTime>>
       /\ calls' = <<>>
       /\ (now' + frameMs) - lastBitTime' >= bitInterval]_vars

\* A due poll without a bit, in the middle of a frame.
C26_Witness ==
  /\ driven = "BitReceiver"
  /\ op = "poll"
  /\ pre.state = "bits"
  /\ state = "bits"
  /\ sampled = null
  /\ now - lastBitTime >= bitInterval
  /\ calls = <<>>
  /\ Len(bits) >= 24
  /\ pre.length = Len(bits)

\* The receiver is in the state bits and the channel has handed out the
\* last bit of its transmission: detectBit answers none from here on.
BitsHaveStopped ==
  /\ driven = "BitReceiver"
  /\ state = "bits"
  /\ fed = Len(Streams[stream])

\* No onMessage and no onError among the callbacks of the last method.
NoVerdict == \A i \in DOMAIN calls : calls[i].cb \notin {"onMessage", "onError"}

\* C27: once a BitReceiver is in the state bits, with a buffer of at most
\* 2000 bits that holds no valid frame, and detectBit answers none to every
\* poll from then on, with no stop(), the receiver stays in bits and calls
\* neither onError nor onMessage.
C27_Stall ==
  [](BitsHaveStopped =>
       [](state = "bits" /\ Len(bits) <= MAX_BITS_TIMEOUT /\ NoVerdict))

\* The fourth due poll in a row without a bit, after the last bit of a frame
\* that fails its checksum.
C27_Witness ==
  /\ BitsHaveStopped
  /\ stream = "badChecksum"
  /\ op = "poll"
  /\ decode(bits) = null
  /\ Len(bits) = Len(Streams[stream])
  /\ now - lastBitTime >= MaxStallPolls * bitInterval

\* What detectPilot and detectBit can return.
AnyPilot == BOOLEAN
AnyBit == {null, Bit(0), Bit(1)}

\* A step that is a poll of a running BitReceiver in the state gap.
GapPoll == driven = "BitReceiver" /\ running /\ state = "gap" /\ op' = "poll"

\* A step that is the first sample of a session: a poll in the state bits
\* with an empty buffer that appends a bit or makes a callback.
FirstSample ==
  /\ driven = "BitReceiver"
  /\ running
  /\ state = "bits"
  /\ bits = <<>>
  /\ op' = "poll"
  /\ (bits' # bits \/ calls' # <<>>)

\* C28: a poll in the state gap moves to bits exactly when its time is at
\* least 0.6 * gapMs = 180 ms after gapStartTime, gapMs being 300, whatever
\* detectPilot and detectBit would return; the move empties the buffer, sets
\* lastBitTime to the time of the poll and reports receiving with progress 0,
\* and the first bit is sampled no earlier than bitMs + guardMs after it.
C28_GapThreshold ==
  /\ gapMs = 300
  /\ [][/\ GapPoll =>
             /\ \A pilot \in AnyPilot : \A bit \in AnyBit :
                  processFrame(this, now', pilot, bit)
                    = processFrame(this, now', FALSE, null)
             /\ IF 10 * (now' - gapStartTime) >= 6 * 300
                  THEN /\ state' = "bits"
                       /\ bits' = <<>>
                       /\ lastBitTime' = now'
                       /\ calls' = <<[cb |-> "onStatusChange",
                                      arg |-> receiving(0, undefined)]>>
                  ELSE /\ UNCHANGED <<state, bits, gapStartTime, lastBitTime>>
                       /\ calls' = <<>>
        /\ FirstSample => now' - lastBitTime >= config.bitMs + config.guardMs]_vars

\* The poll that left the gap exactly 180 ms after it began, the polls
\* before it having stayed.
C28_Witness ==
  /\ driven = "BitReceiver"
  /\ op = "poll"
  /\ pre.state = "gap"
  /\ state = "bits"
  /\ bits = <<>>
  /\ lastBitTime = now
  /\ now - gapStartTime = 180
  /\ frameMs < 180

\* A step that is a poll of a running BitReceiver in the state bits, and
\* one that appends a bit (every appended bit is reported by a callback, also
\* when the buffer is emptied again in the same poll).
BitsPoll == driven = "BitReceiver" /\ running /\ state = "bits" /\ op' = "poll"
Appends == BitsPoll /\ (bits' # bits \/ calls' # <<>>)

\* The statuses 'receiving' among the callbacks of the step.
ProgressReports ==
  {i \in DOMAIN calls' : IsStatus(calls'[i], "receiving")}

\* C29: a poll appends at most one bit, and only when its time is at least
\* bitMs + guardMs after lastBitTime; the poll that appends sets lastBitTime
\* to its time and a poll that does not leaves lastBitTime as it is, so two
\* bits in a row are sampled at least bitMs + guardMs apart at every cadence
\* of polls.
C29_SamplingInterval ==
  [][BitsPoll =>
       /\ \/ bits' = bits
          \/ bits' = <<>>
          \/ \E b \in {0, 1} : bits' = Append(bits, b)
       /\ Cardinality(ProgressReports) <= 1
       /\ Appends =>
            /\ now' - lastBitTime >= config.bitMs + config.guardMs
            /\ Cardinality(ProgressReports) = 1
            /\ state' = "bits" => (lastBitTime' = now' /\ Len(bits') = Len(bits) + 1)
       /\ ~Appends => lastBitTime' = lastBitTime]_vars

\* A bit appended by a poll that came more than two bit intervals after the
\* bit before it.
C29_Witness ==
  /\ driven = "BitReceiver"
  /\ op = "poll"
  /\ pre.state = "bits"
  /\ state = "bits"
  /\ frameMs = SlowFrame
  /\ sampled # null
  /\ Len(bits) = pre.length + 1
  /\ Len(bits) >= 2
  /\ lastBitTime = now

(***************************************************************************)
(* Properties of the ManualBitReceiver's guards.                           *)
(***************************************************************************)
\* The ManualBitReceiver after a call is as before it, no callback made.
Untouched(r) == r.state = mState /\ r.bits = mBits /\ r.calls = <<>>

\* The call moved to the state s, the buffer being buffer, with the one
\* status status.
MovedTo(r, s, buffer, status) ==
  /\ r.state = s
  /\ r.bits = buffer
  /\ r.calls = <<[cb |-> "onStatusChange", arg |-> status]>>

\* C30: in every state and with every buffer of a ManualBitReceiver,
\* processPilotDetected(true) in idle moves to pilot,
\* processPilotDetected(false) in pilot moves to gap, startBitCollection()
\* in gap moves to bits with an empty buffer and the status receiving with
\* progress 0; every other call of the two leaves state and buffer as they
\* are and emits no status; and a step of either method has that outcome.
C30_ManualGuards ==
  driven = "ManualBitReceiver" =>
    /\ \A detected \in BOOLEAN :
         LET r == processPilotDetected(manualThis, detected)
         IN  IF mState = "idle" /\ detected
               THEN MovedTo(r, "pilot", mBits, [state |-> "pilot"])
             ELSE IF mState = "pilot" /\ ~detected
               THEN MovedTo(r, "gap", mBits, [state |-> "gap"])
             ELSE Untouched(r)
    /\ LET r == startBitCollection(manualThis)
       IN  IF mState = "gap"
             THEN MovedTo(r, "bits", <<>>, receiving(0, undefined))
             ELSE Untouched(r)
    /\ op = "processPilotDetected" =>
         \/ pre.state = "idle" /\ mState = "pilot" /\ IsStatus(calls[1], "pilot")
         \/ pre.state = "pilot" /\ mState = "gap" /\ IsStatus(calls[1], "gap")
         \/ pre.state = mState /\ calls = <<>>
    /\ op = "startBitCollection" =>
         IF pre.state = "gap"
           THEN mState = "bits" /\ mBits = <<>> /\ IsStatus(calls[1], "receiving")
           ELSE pre.state = mState /\ pre.length = Len(mBits) /\ calls = <<>>
    /\ op \in {"processPilotDetected", "startBitCollection"} =>
         (Len(calls) <= 1 /\ (mBits # <<>> => Len(mBits) = pre.length))

\* startBitCollection() in gap with bits in the buffer.
C30_Witness ==
  /\ driven = "ManualBitReceiver"
  /\ op = "startBitCollection"
  /\ pre.state = "gap"
  /\ pre.length > 0
  /\ mState = "bits"
  /\ mBits = <<>>

\* C31: a tryDecode() of a ManualBitReceiver whose buffer decodes to a
\* message emits the status success, calls onMessage with that message once,
\* resets to idle with an empty buffer and emits the status idle, in this
\* order; onError is not called.
C31_ManualSuccess ==
  [][(driven = "ManualBitReceiver" /\ op' = "tryDecode" /\ decode(mBits) # null) =>
       /\ calls' = <<[cb |-> "onStatusChange", arg |-> [state |-> "success"]],
                     [cb |-> "onMessage", arg |-> decode(mBits).text],
                     [cb |-> "onStatusChange", arg |-> [state |-> "idle"]]>>
       /\ mState' = "idle"
       /\ mBits' = <<>>]_vars

\* A tryDecode() in the state bits on a buffer that held a frame behind
\* other bits.
C31_Witness ==
  /\ driven = "ManualBitReceiver"
  /\ op = "tryDecode"
  /\ stream = "prefixed"
  /\ pre.state = "bits"
  /\ pre.length = Len(Streams[stream])
  /\ mState = "idle"
  /\ mBits = <<>>
  /\ Len(calls) = 3
  /\ calls[2].cb = "onMessage"

\* C32: when 2001 bits have been fed through addBit to a ManualBitReceiver
\* in the state bits, onError has been called and the state is idle.
C32_ManualTimeout ==
  (/\ driven = "ManualBitReceiver"
   /\ op = "addBit"
   /\ pre.state = "bits"
   /\ Len(mBits) = MAX_BITS_TIMEOUT + 1) =>
    /\ mState = "idle"
    /\ \E i \in DOMAIN calls : calls[i].cb = "onError"


\* The calls of the step just made that went to cb with argument arg.
Called(cb, arg) == \E i \in DOMAIN calls : calls[i] = [cb |-> cb, arg |-> arg]

CalledNext(cb, arg) == \E i \in DOMAIN calls' : calls'[i] = [cb |-> cb, arg |-> arg]

\* C33 (as claimed): switchChannel(id) stops the previously current channel
\* if it is receiving, leaves the store with currentChannel = id and
\* receiverStatus idle, and starts reception on channel id exactly when the
\* store's transceiver state was 'receiving' before the call; otherwise the
\* transceiver state is 'idle' and no channel is receiving.
C33_SwitchChannel ==
  [][op' = "switchChannel" =>
       /\ isReceiving[currentChannel] => CalledNext("channel.stopReceive", currentChannel)
       /\ CalledNext("store.setChannel", currentChannel')
       /\ CalledNext("store.setReceiverStatus", "idle")
       /\ IF transceiverState = "receiving"
            THEN /\ CalledNext("channel.startReceive", currentChannel')
                 /\ transceiverState' = "receiving"
            ELSE /\ ~ \E ch \in ChannelIds : CalledNext("channel.startReceive", ch)
                 /\ transceiverState' = "idle"
                 /\ \A ch \in ChannelIds : ~isReceiving'[ch]]_vars

\* C40 (as claimed): when the channel of a send was receiving as the send
\* began and was stopped for it, the settling of the send resumes reception
\* on that same channel and starts no other channel, also when switchChannel
\* was called while the send was in flight.
C40_ResumeSameChannel ==
  (driven = "MessageService" /\ op = "sendSettled" /\ pre.task.wasReceiving) =>
     /\ Called("channel.startReceive", pre.task.channel)
     /\ \A ch \in ChannelIds \ {pre.task.channel} : ~Called("channel.startReceive", ch)


\* Whether decode has rejected the frame at the first run of 8 ones of
\* bitArray for good: its length byte is 0 or above MAX_MESSAGE_BYTES, or
\* the frame is complete and decode returns null.
FirstMarkerFailed(bitArray) ==
  LET markerIndex == findStartMarker(bitArray)
  IN  /\ markerIndex # -1
      /\ Len(bitArray) >= markerIndex + 16
      /\ LET dataLength == bitsToNumber(Slice(bitArray, markerIndex + 8, markerIndex + 16))
         IN  \/ dataLength = 0
             \/ dataLength > MAX_MESSAGE_BYTES
             \/ /\ Len(bitArray) >= markerIndex + 16 + 8 * dataLength + 8
                /\ decode(bitArray) = null

audioChannel == "ultrasonic"

\* Calls of startReceive and stopReceive in one run.
MaxChannelCalls == 4

\* The channel a method is entered on.
channel ==
  [isReceiving |-> isReceiving[audioChannel], receiver |-> receiver,
   bitReceiver |-> bitReceiver, polling |-> polling, tasks |-> tasks,
   issued |-> issued, calls |-> <<>>]

\* startReceive up to "await this.receiver.start()".
channelStartReceiveBegin(c) ==
  IF c.isReceiving THEN c
  ELSE noted([c EXCEPT !.receiver = Id(c.issued + 1),
                      !.issued = @ + 1,
                      !.tasks = @ \cup {Pending(c.issued + 1, "receiver.start",
                                                audioChannel, FALSE)}],
            "new AudioReceiver", c.issued + 1)

\* startReceive from the settling of receiver.start() on: a new BitReceiver
\* replaces this.bitReceiver and is started; a rejection leaves startReceive.
channelStartReceiveEnd(c, task, ok) ==
  IF ~ok THEN [c EXCEPT !.tasks = @ \ {task}]
  ELSE noted([c EXCEPT !.tasks = @ \ {task},
                      !.bitReceiver = Id(c.issued + 1),
                      !.issued = @ + 1,
                      !.isReceiving = TRUE,
                      !.polling = @ \cup {c.issued + 1}],
            "bitReceiver.start", c.issued + 1)

\* stopReceive: AudioChannelBase.stopReceive, then the BitReceiver and the
\* AudioReceiver the fields hold are stopped and the fields cleared.
channelStopReceive(c) ==
  LET base == [c EXCEPT !.isReceiving = FALSE]
      quiet == IF base.bitReceiver # null
                 THEN noted([base EXCEPT !.polling = @ \ {base.bitReceiver.id},
                                         !.bitReceiver = null],
                            "bitReceiver.stop", base.bitReceiver.id)
                 ELSE base
  IN  IF quiet.receiver # null
        THEN noted([quiet EXCEPT !.receiver = null], "receiver.stop", quiet.receiver.id)
        ELSE quiet

\* The fields of the channel after a step.
ChannelLeave(name, c, seen) ==
  /\ isReceiving' = [isReceiving EXCEPT ![audioChannel] = c.isReceiving]
  /\ receiver' = c.receiver
  /\ bitReceiver' = c.bitReceiver
  /\ polling' = c.polling
  /\ tasks' = c.tasks
  /\ issued' = c.issued
  /\ calls' = c.calls
  /\ op' = name
  /\ pre' = seen
  /\ sampled' = null
  /\ UNCHANGED <<driven, objectVars, hostVars, codecVars, selectorVars,
                 transceiverState, currentChannel, serviceChannel, isSending,
                 gState, gFrames, gGapStartTime, lastFrameTime, shown>>

\* What a step of the channel found: the BitReceivers polling before it.
Polled(task) == [polling |-> polling, task |-> task]

ChannelInit ==
  /\ driven = "UltrasonicChannel"
  /\ stream = "none"
  /\ frameMs = 0
  /\ transmissions = 0
  /\ slack = 0
  /\ Constructed
  /\ CodecUnused

\* channel.startReceive(), from MessageService.startReceive or directly.
channelStartReceive ==
  /\ driven = "UltrasonicChannel"
  /\ events < MaxChannelCalls
  /\ events' = events + 1
  /\ ChannelLeave("startReceive", channelStartReceiveBegin(channel), Polled(noTask))

\* AudioReceiver.start() settles: the device was granted, or refused.
receiverStartSettled ==
  /\ driven = "UltrasonicChannel"
  /\ \E task \in tasks :
       \E ok \in BOOLEAN :
         ChannelLeave("receiverStartSettled",
                      channelStartReceiveEnd(channel, task, ok), Polled(task))
  /\ UNCHANGED events

\* channel.stopReceive()
channelStopReceiveCall ==
  /\ driven = "UltrasonicChannel"
  /\ events < MaxChannelCalls
  /\ events' = events + 1
  /\ ChannelLeave("stopReceive", channelStopReceive(channel), Polled(noTask))

ChannelNext ==
  \/ channelStartReceive
  \/ receiverStartSettled
  \/ channelStopReceiveCall

SpecChannel == ChannelInit /\ [][ChannelNext]_vars

\* C39 (as claimed): at most one BitReceiver of the channel is polling at
\* any time, and after stopReceive none of the BitReceivers started before
\* it is polling.
C39_OneReceiveSession ==
  driven = "UltrasonicChannel" =>
    /\ Cardinality(polling) <= 1
    /\ op = "stopReceive" => polling = {}


(***************************************************************************)
(* BitReceiver with an owner that calls stop() and start() from inside     *)
(* the callbacks the receiver makes during a tick.                         *)
(***************************************************************************)
\* Callbacks of one tick the owner may react in: the status of a sample,
\* then 'success', then the message.
MaxReactAt == 3

Plans == [at : 1..MaxReactAt, does : {"stop", "restart"}]

\* The receiver the pending callback id is run on, with the fields stop()
\* and start() write and the owner's plan for this tick.
reentered(id, plan) ==
  [state |-> state, bits |-> bits, gapStartTime |-> gapStartTime,
   lastBitTime |-> lastBitTime, calls |-> <<>>, running |-> running,
   animationFrameId |-> animationFrameId, pending |-> pending \ {id},
   requested |-> requested, plan |-> plan]

\* Whether the owner called into the receiver during the step just made.
Reentered(r) == \E i \in DOMAIN r.calls : r.calls[i].cb \in {"stop", "start"}

\* BitReceiver.poll() run by the browser, the owner reacting inside one of
\* its callbacks: processFrame with the owner's calls in it, then the
\* requestAnimationFrame that ends poll().
pollReentrant ==
  /\ driven = "BitReceiver"
  /\ running
  /\ \E id \in pending :
       \E pilot \in PilotAnswers :
         \E bit \in BitAnswers(now + frameMs) :
           \E plan \in Plans :
             LET t == now + frameMs
                 r == processFrame(reentered(id, plan), t, pilot, bit)
             IN  /\ Reentered(r)
                 /\ plan.does = "restart" => starts < MaxStarts
                 /\ starts' = IF plan.does = "restart" THEN starts + 1 ELSE starts
                 /\ now' = t
                 /\ Leave("poll", r)
                 /\ running' = r.running
                 /\ requested' = r.requested + 1
                 /\ animationFrameId' = Id(r.requested + 1)
                 /\ pending' = r.pending \cup {r.requested + 1}
                 /\ sampled' = IF Due(t) /\ bit # null THEN bit ELSE null
                 /\ transmissions' = IF state = "idle" /\ pilot
                                       THEN transmissions - 1
                                       ELSE transmissions
                 /\ fed' = IF state = "idle" /\ pilot THEN 0
                           ELSE IF Due(t) /\ bit # null THEN fed + 1
                           ELSE fed
                 /\ slack' = IF Stalled(t, pilot, bit) THEN slack - 1 ELSE slack
  /\ UNCHANGED <<driven, stream, frameMs, codecVars, serviceVars>>

ReentrantStreams == {"frame", "prefixed"}

ReentrantInit == \E s \in ReentrantStreams : BitReceiverOn(s)

ReentrantNext == start \/ stop \/ poll \/ pollReentrant

SpecReentrant == ReentrantInit /\ [][ReentrantNext]_vars

\* C35 (as claimed): at most one poll callback of the receiver is pending
\* at any time, so that processFrame runs at most once per animation frame,
\* also when start() and stop() are called from inside the callbacks.
C35_SinglePollingLoop ==
  driven = "BitReceiver" => Cardinality(pending) <= 1

\* C36 (as claimed): after stop(), also a stop() called from inside a
\* callback during a tick, no onMessage, onError or onStatusChange is
\* invoked until start() is called again.
C36_QuietAfterStop ==
  driven = "BitReceiver" =>
    \A i \in DOMAIN calls :
      \A j \in DOMAIN calls :
        (i < j /\ calls[i].cb = "stop"
           /\ calls[j].cb \in {"onMessage", "onError", "onStatusChange"})
          => \E k \in (i + 1)..(j - 1) : calls[k].cb = "start"


(***************************************************************************)
(* GridChannel: the receive loop.  The camera's image is the 16 cell       *)
(* values analyzeGrid reads from it; isAllWhite holds of the image whose   *)
(* cells are all read as white.                                            *)
(***************************************************************************)
GRID_FRAME_MS == 400
GRID_GAP_MS == 400
GRID_ROWS == 4
GRID_COLS == 4
\* "Safety limit": frames.length > 200
GridFrameLimit == 200

createCheckerboardPattern ==
  [i \in 1..(GRID_ROWS * GRID_COLS) |->
     (((i - 1) \div GRID_COLS) + ((i - 1) % GRID_COLS)) % 2]

createAllWhitePattern == [i \in 1..(GRID_ROWS * GRID_COLS) |-> 1]

createAllBlackPattern == [i \in 1..(GRID_ROWS * GRID_COLS) |-> 0]

\* GridAnalyzer.isCheckerboard: matchCount / 16 >= 0.75
isCheckerboard(cells) ==
  4 * Cardinality({i \in 1..(GRID_ROWS * GRID_COLS) :
                     cells[i] = createCheckerboardPattern[i]})
    >= 3 * (GRID_ROWS * GRID_COLS)

\* GridAnalyzer.isAllWhite
isAllWhite(cells) == \A i \in 1..(GRID_ROWS * GRID_COLS) : cells[i] = 1

\* The channel a method is entered on.
grid ==
  [state |-> gState, frames |-> gFrames, gapStartTime |-> gGapStartTime,
   lastFrameTime |-> lastFrameTime, isReceiving |-> isReceiving["grid"],
   calls |-> <<>>]

\* The status {state: 'receiving', progress}; progress is kept as the
\* number of tenths.
gridReceiving(frameCount) ==
  [state |-> "receiving", progress10 |-> Min2(10, frameCount)]

\* A resetState that keeps the frames collected.
resetStateKeepsFrames(g) ==
  noted([g EXCEPT !.state = "idle"], "onStatusChange", [state |-> "idle"])

\* GridChannel.resetState
resetState(g) ==
  noted([g EXCEPT !.state = "idle", !.frames = <<>>],
        "onStatusChange", [state |-> "idle"])

\* GridChannel.tryDecode, GridProtocol.decode having returned message; the
\* text handed to onMessage is kept in the record decode's result is.
gridTryDecodeResult(g, message) ==
  resetState(
    IF message # null
      THEN noted(noted(g, "onStatusChange", [state |-> "success"]),
                 "onMessage", message)
      ELSE noted(noted(g, "onStatusChange",
                       [state |-> "error", message |-> "decode failed"]),
                 "onError",
                 [type |-> "checksum", message |-> "Checksum verification failed"]))

gridTryDecode(g) == gridTryDecodeResult(g, gridDecode(g.frames))

\* handleBitsState from "Safety limit" on.
frameLimitCheck(g) ==
  IF Len(g.frames) > GridFrameLimit
    THEN resetState(
           noted(noted(g, "onStatusChange",
                       [state |-> "error", message |-> "too many frames"]),
                 "onError",
                 [type |-> "timeout", message |-> "Too many frames received"]))
    ELSE g

\* handleBitsState from "Store frame" on.
storeFrame(g, cells, t) ==
  frameLimitCheck(
    noted([g EXCEPT !.frames = Append(@, cellsToFrame(cells)),
                    !.lastFrameTime = t],
          "onStatusChange", gridReceiving(Len(g.frames) + 1)))

gridHandleBitsState(g, cells, t) ==
  IF t - g.lastFrameTime >= GRID_FRAME_MS
    THEN IF isCheckerboard(cells) THEN gridTryDecode(g)
         ELSE storeFrame(g, cells, t)
    ELSE g

gridHandleGapState(g, t) ==
  IF (t - g.gapStartTime) * GAP_THRESHOLD_MULTIPLIER.den
       >= GRID_GAP_MS * GAP_THRESHOLD_MULTIPLIER.num
    THEN noted([g EXCEPT !.state = "bits", !.frames = <<>>, !.lastFrameTime = t],
               "onStatusChange", gridReceiving(0))
    ELSE g

gridHandlePilotState(g, cells, t) ==
  IF ~isAllWhite(cells)
    THEN noted([g EXCEPT !.state = "gap", !.gapStartTime = t],
               "onStatusChange", [state |-> "gap"])
    ELSE g

gridHandleIdleState(g, cells) ==
  IF isAllWhite(cells)
    THEN noted([g EXCEPT !.state = "pilot"], "onStatusChange", [state |-> "pilot"])
    ELSE g

\* GridChannel.processFrame, the analyzers being there.
gridProcessFrame(g, cells, t) ==
  CASE g.state = "idle" -> gridHandleIdleState(g, cells)
    [] g.state = "pilot" -> gridHandlePilotState(g, cells, t)
    [] g.state = "gap" -> gridHandleGapState(g, t)
    [] g.state = "bits" -> gridHandleBitsState(g, cells, t)

\* GridChannel.startReceive from the settling of camera.start() on, with
\* the first processFrame that startPolling runs at once.
gridStartReceiveEnd(g, cells, t) ==
  gridProcessFrame(
    noted([g EXCEPT !.isReceiving = TRUE, !.state = "idle", !.frames = <<>>],
          "onStatusChange", [state |-> "idle"]),
    cells, t)

\* GridChannel.stopReceive
gridStopReceive(g) ==
  [g EXCEPT !.isReceiving = FALSE, !.state = "idle", !.frames = <<>>]

(***************************************************************************)
(* GridChannel runs: a sender's overlay in front of the camera.            *)
(***************************************************************************)
\* The texts the sender sends: none, "j", "Z" and "jj".
GridLoopMessages == {<<>>, <<106>>, <<90>>, <<106, 106>>}

Patterns(fr) == [i \in 1..Len(fr) |-> frameToCells(fr[i])]

\* What GridChannel.send draws after the gap for the message m: the cells
\* of each frame, then the checkerboard.
Sent(m) ==
  [message |-> m, kind |-> "sent",
   patterns |-> Append(Patterns(gridEncode(m).frames), createCheckerboardPattern)]

\* The same with the first data byte read wrongly by the camera.
Corrupted(m) ==
  [message |-> m, kind |-> "corrupted",
   patterns |-> Append(Patterns(WithByte(gridEncode(m).frames, 1, 107)),
                       createCheckerboardPattern)]

GridShows ==
  {Sent(m) : m \in GridLoopMessages} \cup {Corrupted(<<106>>)}

\* Time between two animation frames of the grid loop: the frame time, or
\* half of it.
GridFrameTimes == {GRID_FRAME_MS \div 2, GRID_FRAME_MS}

\* Whether a frame is due at time t.
GridDue(t) == gState = "bits" /\ t - lastFrameTime >= GRID_FRAME_MS

\* The cells the camera may read at time t: in idle the pilot of a new send
\* or a dark screen, in pilot the pilot or the gap, in bits at a due time
\* the next pattern of the send (at the other times its cells are not
\* looked at).
SeenAt(t) ==
  CASE gState = "idle" ->
         {c \in {createAllWhitePattern} : transmissions > 0}
           \cup {c \in {createAllBlackPattern} : slack > 0}
    [] gState = "pilot" ->
         {c \in {createAllWhitePattern} : slack > 0} \cup {createAllBlackPattern}
    [] gState = "gap" -> {createAllBlackPattern}
    [] gState = "bits" ->
         IF GridDue(t) /\ fed < Len(shown.patterns)
           THEN {shown.patterns[fed + 1]}
           ELSE {createAllBlackPattern}

\* What a step of the loop found: the state and frames before it, whether a
\* frame was due and the cells the camera read.
GridFound(due, cells) ==
  [state |-> gState, frames |-> gFrames, due |-> due, cells |-> cells]

\* The fields of the channel after a step.
GridLeave(name, g, seen) ==
  /\ gState' = g.state
  /\ gFrames' = g.frames
  /\ gGapStartTime' = g.gapStartTime
  /\ lastFrameTime' = g.lastFrameTime
  /\ isReceiving' = [isReceiving EXCEPT !["grid"] = g.isReceiving]
  /\ calls' = g.calls
  /\ op' = name
  /\ pre' = seen
  /\ sampled' = null
  /\ UNCHANGED <<driven, objectVars, codecVars, selectorVars, transceiverState,
                 currentChannel, serviceChannel, isSending, tasks, issued,
                 events, receiver, bitReceiver, polling>>

\* The channel's view of the sender after the camera read cells at time t.
GridWatch(cells, t) ==
  /\ \E show \in GridShows :
       shown' = IF gState = "idle" /\ isAllWhite(cells) THEN show ELSE shown
  /\ transmissions' = IF gState = "idle" /\ isAllWhite(cells)
                        THEN transmissions - 1
                        ELSE transmissions
  /\ fed' = IF gState = "idle" /\ isAllWhite(cells) THEN 0
            ELSE IF GridDue(t) /\ fed < Len(shown.patterns) THEN fed + 1
            ELSE fed
  /\ slack' = IF \/ gState = "idle" /\ ~isAllWhite(cells)
                 \/ gState = "pilot" /\ isAllWhite(cells)
                THEN slack - 1
                ELSE slack

GridLoopInit ==
  /\ driven = "GridChannel"
  /\ stream = "none"
  /\ frameMs \in GridFrameTimes
  /\ transmissions = MaxTransmissions
  /\ slack = MaxSlack
  /\ Constructed
  /\ CodecUnused

\* channel.startReceive(), the camera having started.
gridStartReceive ==
  /\ driven = "GridChannel"
  /\ starts < MaxStarts
  /\ IF isReceiving["grid"]
       THEN /\ GridLeave("startReceive", grid, GridFound(FALSE, createAllBlackPattern))
            /\ UNCHANGED <<shown, transmissions, fed, slack, starts>>
       ELSE /\ starts' = starts + 1
            /\ \E cells \in SeenAt(now) :
                 /\ GridLeave("startReceive", gridStartReceiveEnd(grid, cells, now),
                              GridFound(FALSE, cells))
                 /\ GridWatch(cells, now)
  /\ UNCHANGED <<now, pending, requested, stream, frameMs>>

\* channel.stopReceive()
gridStopReceiveCall ==
  /\ driven = "GridChannel"
  /\ GridLeave("stopReceive", gridStopReceive(grid), GridFound(FALSE, createAllBlackPattern))
  /\ UNCHANGED <<hostVars, shown>>

\* The browser runs the poll callback of startPolling after frameMs.
gridPoll ==
  /\ driven = "GridChannel"
  /\ isReceiving["grid"]
  /\ \E cells \in SeenAt(now + frameMs) :
       /\ now' = now + frameMs
       /\ GridLeave("poll", gridProcessFrame(grid, cells, now + frameMs),
                    GridFound(GridDue(now + frameMs), cells))
       /\ GridWatch(cells, now + frameMs)
  /\ UNCHANGED <<pending, requested, stream, frameMs, starts>>

GridLoopNext == gridStartReceive \/ gridStopReceiveCall \/ gridPoll

SpecGridLoop == GridLoopInit /\ [][GridLoopNext]_vars

\* The loop has just seen the end marker at a due frame time.
EndMarkerSeen ==
  /\ driven = "GridChannel"
  /\ op = "poll"
  /\ pre.state = "bits"
  /\ pre.due
  /\ isCheckerboard(pre.cells)

\* C34: when the grid loop sees the checkerboard at a due frame time in the
\* bits state it decodes the collected frames and is idle afterwards with
\* no frames: on success its callbacks are status success, the message and
\* status idle, on failure an error status, onError of type 'checksum' and
\* status idle.
C34_GridEndMarker ==
  EndMarkerSeen =>
    /\ gState = "idle"
    /\ gFrames = <<>>
    /\ Len(calls) = 3
    /\ calls[1].cb = "onStatusChange"
    /\ calls[3].cb = "onStatusChange"
    /\ calls[3].arg.state = "idle"
    /\ IF gridDecode(pre.frames) # null
         THEN /\ calls[1].arg.state = "success"
              /\ calls[2].cb = "onMessage"
              /\ calls[2].arg = gridDecode(pre.frames)
         ELSE /\ calls[1].arg.state = "error"
              /\ calls[2].cb = "onError"
              /\ calls[2].arg.type = "checksum"

\* C34 witness: the loop has collected the two frames of "j" with a byte
\* read wrongly, has seen the end marker and has reported the failure.
C34_Witness ==
  /\ EndMarkerSeen
  /\ shown.kind = "corrupted"
  /\ Len(pre.frames) = 2
  /\ gridDecode(pre.frames) = null
  /\ gState = "idle"
  /\ gFrames = <<>>
  /\ calls[2].cb = "onError"

\* C38 (as claimed): no frame of encode(m), converted by frameToCells, is
\* classified as the end marker by isCheckerboard, and the loop that is
\* shown the cells of every frame of encode(m) and then the checkerboard
\* delivers m when it sees the end marker.
C38_EndMarkerUnambiguous ==
  (driven = "GridChannel" /\ shown.kind = "sent") =>
    /\ \A i \in DOMAIN gridEncode(shown.message).frames :
         ~isCheckerboard(frameToCells(gridEncode(shown.message).frames[i]))
    /\ EndMarkerSeen =>
         /\ calls[2].cb = "onMessage"
         /\ calls[2].arg = Some(shown.message)

====
